---- MODULE Spec2Model ----
(***************************************************************************)
(* Covered-call backtest (strategies/covered_call): the Strategy Engine,   *)
(* the Cash-Floor Monitor and the day loop of CoveredCallBacktest.run.     *)
(*                                                                         *)
(* Money is an integer number of 1e-5 dollars (a share price of $2.50 is   *)
(* 250000, a cash balance of $2000 is 200000000), volatility and delta are *)
(* percentages, dates are day numbers counted from the first observation.  *)
(* The closed-form pricing functions are tabulated on the grid of prices,  *)
(* strikes, remaining days and volatilities the model uses.                *)
(***************************************************************************)
EXTENDS Integers, Sequences, FiniteSets, TLC

VARIABLES
    config,        \* CoveredCallConfig of the run
    iv,            \* iv_series[i] of the warm-up prefix (one backfilled value)
    pc,            \* position in the body of CoveredCallBacktest.run
    i,             \* index of the current row of df
    row,           \* the current row: [Date, Close]
    strategy,      \* the CoveredCallStrategy object
    cash_monitor,  \* the CashFloorMonitor object: its snapshots
    cash,          \* running cash balance
    equity_curve,  \* the DailyEquitySnapshots appended so far
    cash_warnings, \* the warnings collected so far
    day0,          \* history: strategy and cash as the current iteration found them
    prices,        \* the arguments of run: the price frame and the date window
    df,            \* the frame after the window filter: its length and what rows carry
    result,        \* the BacktestResult run returned, or None
    runs           \* history: the results of the earlier calls of run on this object

vars == <<config, iv, pc, i, row, strategy, cash_monitor, cash, equity_curve,
          cash_warnings, day0, prices, df, result, runs>>

-----------------------------------------------------------------------------
(* Bounds of the model *)

\* number of rows of df the day loop is followed over
MaxDays == 4

\* closing prices a row may carry
Spots == {200000, 240000, 250000, 290000}

\* calendar days between consecutive rows (non-trading days are absent)
Gaps == {1, 2}

\* volatility estimates, in percent (0.30 is the floor of the estimator). The
\* estimator backfills its warm-up rows (the first window + 1 = 21) with one value,
\* so the rows the model follows share the estimate; it is never NaN for a valid
\* price series, so the 0.50 default of the day loop is not taken.
IVs == {30, 100}

\* "Floor IV at 30%": the estimate over a flat price series, whose log returns have
\* standard deviation 0
IVFloor == 30

-----------------------------------------------------------------------------
(* Configuration *)

\* OptionPosition | None, and the None of TradeRecord.strike / .expiration
None == <<>>

NoValue == -1

StrikeCandidates == <<200000, 250000, 300000, 350000, 400000, 500000>>

\* CoveredCallConfig with its defaults; target_dte and roll_dte_threshold are
\* given by the caller (day counts on the scale of MaxDays).
CoveredCallConfig(target_dte, roll_dte_threshold) ==
    [ shares                  |-> 1000,
      min_strike              |-> 250000,
      strike_candidates       |-> StrikeCandidates,
      target_dte              |-> target_dte,
      roll_dte_threshold      |-> roll_dte_threshold,
      roll_profit_pct         |-> 80,
      commission_per_contract |-> 65000,
      bid_ask_spread_pct      |-> 15,
      net_cash_per_share      |-> 150000,
      cash_burn_per_quarter   |-> 10000 ]

\* the configurations a run is started with: <<target_dte, roll_dte_threshold>>
Configs ==
    { CoveredCallConfig(d[1], d[2]) : d \in {<<0, 1>>, <<1, 0>>, <<3, 1>>} }

-----------------------------------------------------------------------------
(* Pricing Model and Cost Model (pricing.py) *)

Max(a, b) == IF a >= b THEN a ELSE b

\* The grid the pricing functions are tabulated on: a table row lists, for each
\* volatility of GridIVs, each price of GridSpots and each strike of GridStrikes
\* (in that nesting), one value.
GridSpots == <<200000, 240000, 250000, 290000>>

GridStrikes == <<250000, 300000, 350000, 400000, 500000>>

GridIVs == <<30, 100>>

IndexOf(seq, x) == CHOOSE k \in 1..Len(seq) : seq[k] = x

GridIndex(S, K, sigma) ==
    ((IndexOf(GridIVs, sigma) - 1) * Len(GridSpots) + IndexOf(GridSpots, S) - 1)
        * Len(GridStrikes) + IndexOf(GridStrikes, K)

\* black_scholes_call(S, K, T, r, sigma) for T = days/365 > 0 and r = 0.045: row
\* `days` of the table, for days = 1..31; prices in 1e-5 dollars, rounded to nearest.
BSTable ==
    <<
       <<0, 0, 0, 0, 0, 6, 0, 0, 0, 0, 1581, 0, 0, 0, 0, 40031, 26, 0, 0, 0, 0,
         0, 0, 0, 0, 1603, 0, 0, 0, 0, 5235, 1, 0, 0, 0, 40040, 2417, 1, 0, 0>>,
       <<0, 0, 0, 0, 0, 72, 0, 0, 0, 0, 2245, 0, 0, 0, 0, 40062, 185, 0, 0, 0, 6,
         0, 0, 0, 0, 3323, 7, 0, 0, 0, 7411, 46, 0, 0, 0, 40227, 4630, 42, 0,
         0>>,
       <<0, 0, 0, 0, 0, 201, 0, 0, 0, 0, 2758, 0, 0, 0, 0, 40092, 420, 0, 0, 0,
         46, 0, 0, 0, 0, 4769, 56, 0, 0, 0, 9084, 207, 1, 0, 0, 40606, 6440, 203,
         2, 0>>,
       <<0, 0, 0, 0, 0, 362, 0, 0, 0, 0, 3193, 0, 0, 0, 0, 40123, 682, 0, 0, 0,
         140, 0, 0, 0, 0, 6035, 168, 1, 0, 0, 10495, 478, 6, 0, 0, 41105, 8006,
         486, 11, 0>>,
       <<0, 0, 0, 0, 0, 539, 0, 0, 0, 0, 3578, 0, 0, 0, 0, 40154, 951, 0, 0, 0,
         288, 2, 0, 0, 0, 7174, 345, 6, 0, 0, 11740, 831, 21, 0, 0, 41670, 9407,
         862, 37, 0>>,
       <<0, 0, 0, 0, 0, 724, 0, 0, 0, 0, 3928, 0, 0, 0, 0, 40185, 1220, 0, 0, 0,
         481, 7, 0, 0, 0, 8217, 577, 18, 0, 0, 12866, 1240, 52, 1, 0, 42268,
         10685, 1305, 87, 0>>,
       <<0, 0, 0, 0, 0, 911, 0, 0, 0, 0, 4250, 0, 0, 0, 0, 40216, 1485, 0, 0, 0,
         710, 17, 0, 0, 0, 9185, 851, 40, 1, 0, 13903, 1686, 104, 4, 0, 42882,
         11868, 1794, 164, 1>>,
       <<0, 0, 0, 0, 0, 1098, 0, 0, 0, 0, 4551, 0, 0, 0, 0, 40248, 1744, 0, 0, 0,
         966, 34, 1, 0, 0, 10092, 1160, 75, 3, 0, 14868, 2156, 177, 10, 0, 43503,
         12974, 2314, 271, 2>>,
       <<0, 0, 0, 0, 0, 1284, 0, 0, 0, 0, 4835, 0, 0, 0, 0, 40280, 1997, 0, 0, 0,
         1245, 61, 2, 0, 0, 10949, 1494, 125, 8, 0, 15775, 2642, 271, 20, 0,
         44122, 14017, 2854, 405, 4>>,
       <<0, 0, 0, 0, 0, 1468, 0, 0, 0, 0, 5104, 0, 0, 0, 0, 40313, 2244, 0, 0, 0,
         1540, 97, 4, 0, 0, 11762, 1848, 190, 15, 0, 16634, 3138, 387, 36, 0,
         44738, 15007, 3408, 566, 9>>,
       <<0, 0, 0, 0, 0, 1649, 0, 0, 0, 0, 5361, 1, 0, 0, 0, 40347, 2486, 1, 0, 0,
         1847, 143, 8, 0, 0, 12539, 2217, 270, 26, 0, 17451, 3640, 522, 58, 0,
         45348, 15951, 3971, 751, 16>>,
       <<0, 0, 0, 0, 0, 1828, 0, 0, 0, 0, 5607, 2, 0, 0, 0, 40382, 2721, 1, 0, 0,
         2164, 200, 14, 1, 0, 13283, 2597, 365, 41, 0, 18231, 4144, 676, 88, 1,
         45949, 16854, 4538, 958, 27>>,
       <<0, 0, 0, 0, 0, 2004, 0, 0, 0, 0, 5844, 3, 0, 0, 0, 40419, 2951, 2, 0, 0,
         2488, 266, 22, 2, 0, 13998, 2985, 474, 62, 1, 18980, 4649, 846, 126, 2,
         46542, 17722, 5107, 1184, 42>>,
       <<0, 0, 0, 0, 0, 2177, 0, 0, 0, 0, 6072, 5, 0, 0, 0, 40458, 3177, 4, 0, 0,
         2816, 343, 33, 3, 0, 14688, 3380, 597, 89, 1, 19701, 5152, 1031, 172, 4,
         47127, 18559, 5676, 1427, 62>>,
       <<0, 0, 0, 0, 0, 2347, 1, 0, 0, 0, 6293, 7, 0, 0, 0, 40498, 3397, 6, 0, 0,
         3149, 430, 48, 5, 0, 15355, 3779, 731, 121, 3, 20397, 5653, 1230, 227,
         6, 47702, 19368, 6244, 1685, 87>>,
       <<1, 0, 0, 0, 0, 2515, 1, 0, 0, 0, 6507, 10, 0, 0, 0, 40539, 3613, 9, 0,
         0, 3484, 525, 66, 7, 0, 16001, 4180, 878, 160, 4, 21070, 6151, 1440,
         291, 9, 48269, 20150, 6809, 1957, 119>>,
       <<1, 0, 0, 0, 0, 2679, 1, 0, 0, 0, 6714, 14, 0, 0, 0, 40583, 3824, 12, 0,
         0, 3820, 630, 88, 11, 0, 16628, 4584, 1035, 206, 7, 21723, 6645, 1661,
         363, 14, 48826, 20910, 7370, 2241, 157>>,
       <<2, 0, 0, 0, 0, 2842, 2, 0, 0, 0, 6917, 19, 0, 0, 0, 40628, 4031, 17, 0,
         0, 4157, 742, 113, 16, 0, 17238, 4988, 1202, 258, 10, 22357, 7136, 1892,
         443, 20, 49375, 21648, 7928, 2535, 201>>,
       <<3, 0, 0, 0, 0, 3001, 3, 0, 0, 0, 7114, 25, 0, 0, 0, 40674, 4235, 22, 0,
         0, 4494, 862, 143, 22, 0, 17832, 5393, 1378, 316, 14, 22973, 7622, 2131,
         532, 28, 49915, 22367, 8482, 2838, 251>>,
       <<4, 0, 0, 0, 0, 3159, 4, 0, 0, 0, 7306, 32, 0, 0, 0, 40722, 4435, 29, 0,
         0, 4831, 988, 178, 30, 1, 18410, 5797, 1562, 381, 20, 23574, 8103, 2378,
         629, 37, 50448, 23067, 9031, 3149, 309>>,
       <<5, 0, 0, 0, 0, 3314, 6, 0, 0, 0, 7494, 40, 0, 0, 0, 40772, 4631, 36, 0,
         0, 5167, 1122, 216, 39, 1, 18975, 6200, 1754, 453, 26, 24159, 8580,
         2631, 733, 49, 50972, 23750, 9575, 3467, 373>>,
       <<6, 0, 0, 0, 0, 3466, 8, 0, 0, 0, 7678, 49, 0, 0, 0, 40823, 4825, 45, 0,
         0, 5502, 1261, 259, 50, 2, 19527, 6603, 1953, 531, 35, 24731, 9052,
         2890, 845, 63, 51488, 24418, 10114, 3791, 444>>,
       <<8, 0, 0, 0, 0, 3617, 10, 0, 0, 0, 7858, 59, 0, 0, 0, 40876, 5015, 54, 0,
         0, 5836, 1406, 306, 63, 3, 20067, 7003, 2157, 615, 45, 25291, 9519,
         3155, 963, 79, 51997, 25071, 10649, 4121, 521>>,
       <<11, 0, 0, 0, 0, 3766, 13, 0, 0, 0, 8034, 70, 0, 0, 0, 40930, 5202, 65,
         0, 0, 6168, 1556, 357, 78, 4, 20596, 7402, 2368, 705, 56, 25838, 9981,
         3424, 1088, 98, 52499, 25711, 11178, 4455, 605>>,
       <<13, 0, 0, 0, 0, 3912, 16, 0, 0, 0, 8207, 83, 0, 0, 0, 40985, 5386, 77,
         0, 0, 6499, 1711, 413, 96, 5, 21115, 7798, 2584, 801, 70, 26374, 10439,
         3697, 1220, 119, 52994, 26337, 11702, 4794, 695>>,
       <<16, 0, 0, 0, 0, 4057, 19, 0, 0, 0, 8377, 96, 0, 0, 0, 41042, 5568, 91,
         0, 0, 6827, 1870, 472, 115, 7, 21623, 8193, 2804, 902, 86, 26900, 10892,
         3974, 1357, 144, 53482, 26952, 12221, 5135, 791>>,
       <<20, 0, 0, 0, 0, 4200, 24, 0, 0, 0, 8544, 111, 0, 0, 0, 41100, 5747, 105,
         0, 0, 7154, 2033, 536, 136, 9, 22122, 8585, 3029, 1008, 103, 27415,
         11341, 4254, 1500, 171, 53964, 27555, 12735, 5480, 894>>,
       <<24, 0, 0, 0, 0, 4341, 28, 0, 0, 0, 8708, 127, 0, 0, 0, 41159, 5923, 121,
         0, 0, 7479, 2200, 603, 160, 11, 22612, 8975, 3257, 1120, 123, 27921,
         11785, 4537, 1649, 200, 54439, 28147, 13245, 5827, 1002>>,
       <<28, 0, 0, 0, 0, 4481, 33, 0, 0, 0, 8870, 144, 0, 0, 0, 41219, 6098, 138,
         1, 0, 7802, 2370, 675, 187, 14, 23093, 9362, 3489, 1236, 146, 28418,
         12224, 4822, 1802, 233, 54908, 28728, 13749, 6177, 1116>>,
       <<33, 0, 0, 0, 0, 4618, 39, 0, 0, 0, 9029, 162, 0, 0, 0, 41280, 6270, 157,
         1, 0, 8123, 2544, 750, 215, 18, 23566, 9747, 3724, 1358, 170, 28907,
         12659, 5109, 1960, 269, 55371, 29300, 14249, 6528, 1236>>,
       <<38, 0, 0, 0, 0, 4755, 46, 0, 0, 0, 9186, 181, 0, 0, 0, 41342, 6440, 176,
         1, 0, 8441, 2720, 828, 246, 22, 24032, 10130, 3962, 1483, 197, 29387,
         13090, 5398, 2123, 308, 55829, 29863, 14744, 6881, 1360>>
    >>

\* black_scholes_call at the floor T = 0.001 that roll_position uses when
\* days_remaining / 365 is below it (days_remaining <= 0).
BSFloorTable ==
    <<0, 0, 0, 0, 0, 0, 0, 0, 0, 0, 952, 0, 0, 0, 0, 40011, 0, 0, 0, 0, 0, 0, 0,
      0, 0, 361, 0, 0, 0, 0, 3159, 0, 0, 0, 0, 40011, 678, 0, 0, 0>>

\* call_delta(S, K, T, r, sigma) for T = days/365 > 0, in percent, rounded to nearest:
\* row `days` of the table.
DeltaTable ==
    <<
       <<0, 0, 0, 0, 0, 0, 0, 0, 0, 0, 51, 0, 0, 0, 0, 100, 2, 0, 0, 0, 0, 0, 0,
         0, 0, 23, 0, 0, 0, 0, 51, 0, 0, 0, 0, 100, 27, 0, 0, 0>>,
       <<0, 0, 0, 0, 0, 3, 0, 0, 0, 0, 51, 0, 0, 0, 0, 100, 7, 0, 0, 0, 0, 0, 0,
         0, 0, 30, 0, 0, 0, 0, 52, 1, 0, 0, 0, 98, 34, 1, 0, 0>>,
       <<0, 0, 0, 0, 0, 7, 0, 0, 0, 0, 51, 0, 0, 0, 0, 100, 11, 0, 0, 0, 1, 0, 0,
         0, 0, 34, 1, 0, 0, 0, 52, 2, 0, 0, 0, 95, 37, 2, 0, 0>>,
       <<0, 0, 0, 0, 0, 10, 0, 0, 0, 0, 51, 0, 0, 0, 0, 100, 15, 0, 0, 0, 2, 0,
         0, 0, 0, 37, 2, 0, 0, 0, 52, 5, 0, 0, 0, 93, 39, 4, 0, 0>>,
       <<0, 0, 0, 0, 0, 13, 0, 0, 0, 0, 51, 0, 0, 0, 0, 100, 18, 0, 0, 0, 3, 0,
         0, 0, 0, 39, 3, 0, 0, 0, 53, 7, 0, 0, 0, 91, 41, 6, 0, 0>>,
       <<0, 0, 0, 0, 0, 15, 0, 0, 0, 0, 52, 0, 0, 0, 0, 100, 20, 0, 0, 0, 5, 0,
         0, 0, 0, 40, 5, 0, 0, 0, 53, 9, 1, 0, 0, 89, 42, 8, 1, 0>>,
       <<0, 0, 0, 0, 0, 17, 0, 0, 0, 0, 52, 0, 0, 0, 0, 100, 22, 0, 0, 0, 6, 0,
         0, 0, 0, 41, 6, 0, 0, 0, 53, 11, 1, 0, 0, 87, 43, 10, 1, 0>>,
       <<0, 0, 0, 0, 0, 19, 0, 0, 0, 0, 52, 0, 0, 0, 0, 100, 24, 0, 0, 0, 8, 0,
         0, 0, 0, 42, 8, 1, 0, 0, 53, 12, 1, 0, 0, 86, 44, 12, 2, 0>>,
       <<0, 0, 0, 0, 0, 21, 0, 0, 0, 0, 52, 0, 0, 0, 0, 100, 25, 0, 0, 0, 9, 1,
         0, 0, 0, 43, 9, 1, 0, 0, 53, 14, 2, 0, 0, 85, 45, 13, 2, 0>>,
       <<0, 0, 0, 0, 0, 22, 0, 0, 0, 0, 52, 0, 0, 0, 0, 100, 26, 0, 0, 0, 10, 1,
         0, 0, 0, 44, 10, 1, 0, 0, 54, 16, 3, 0, 0, 84, 45, 15, 3, 0>>,
       <<0, 0, 0, 0, 0, 23, 0, 0, 0, 0, 52, 0, 0, 0, 0, 100, 27, 0, 0, 0, 12, 1,
         0, 0, 0, 44, 12, 2, 0, 0, 54, 17, 3, 0, 0, 83, 46, 16, 4, 0>>,
       <<0, 0, 0, 0, 0, 24, 0, 0, 0, 0, 52, 0, 0, 0, 0, 100, 28, 0, 0, 0, 13, 2,
         0, 0, 0, 45, 13, 2, 0, 0, 54, 18, 4, 1, 0, 82, 46, 17, 5, 0>>,
       <<0, 0, 0, 0, 0, 25, 0, 0, 0, 0, 52, 0, 0, 0, 0, 100, 29, 0, 0, 0, 14, 2,
         0, 0, 0, 45, 14, 3, 0, 0, 54, 19, 5, 1, 0, 81, 47, 19, 5, 0>>,
       <<0, 0, 0, 0, 0, 26, 0, 0, 0, 0, 52, 0, 0, 0, 0, 100, 30, 0, 0, 0, 15, 2,
         0, 0, 0, 46, 15, 3, 1, 0, 54, 20, 5, 1, 0, 81, 47, 20, 6, 0>>,
       <<0, 0, 0, 0, 0, 27, 0, 0, 0, 0, 52, 0, 0, 0, 0, 99, 31, 0, 0, 0, 16, 3,
         0, 0, 0, 46, 16, 4, 1, 0, 54, 22, 6, 1, 0, 80, 48, 21, 7, 0>>,
       <<0, 0, 0, 0, 0, 28, 0, 0, 0, 0, 53, 0, 0, 0, 0, 99, 32, 0, 0, 0, 17, 3,
         1, 0, 0, 47, 17, 5, 1, 0, 55, 22, 7, 2, 0, 79, 48, 22, 8, 1>>,
       <<0, 0, 0, 0, 0, 29, 0, 0, 0, 0, 53, 0, 0, 0, 0, 99, 32, 0, 0, 0, 18, 4,
         1, 0, 0, 47, 18, 5, 1, 0, 55, 23, 7, 2, 0, 79, 48, 23, 8, 1>>,
       <<0, 0, 0, 0, 0, 29, 0, 0, 0, 0, 53, 0, 0, 0, 0, 99, 33, 0, 0, 0, 19, 4,
         1, 0, 0, 47, 19, 6, 1, 0, 55, 24, 8, 2, 0, 79, 49, 23, 9, 1>>,
       <<0, 0, 0, 0, 0, 30, 0, 0, 0, 0, 53, 0, 0, 0, 0, 99, 33, 0, 0, 0, 20, 5,
         1, 0, 0, 48, 20, 6, 2, 0, 55, 25, 9, 3, 0, 78, 49, 24, 10, 1>>,
       <<0, 0, 0, 0, 0, 30, 0, 0, 0, 0, 53, 1, 0, 0, 0, 99, 34, 0, 0, 0, 20, 5,
         1, 0, 0, 48, 20, 7, 2, 0, 55, 26, 10, 3, 0, 78, 49, 25, 11, 1>>,
       <<0, 0, 0, 0, 0, 31, 0, 0, 0, 0, 53, 1, 0, 0, 0, 98, 34, 1, 0, 0, 21, 6,
         1, 0, 0, 48, 21, 7, 2, 0, 55, 26, 10, 3, 0, 77, 50, 26, 11, 2>>,
       <<0, 0, 0, 0, 0, 32, 0, 0, 0, 0, 53, 1, 0, 0, 0, 98, 35, 1, 0, 0, 22, 6,
         2, 0, 0, 49, 22, 8, 3, 0, 55, 27, 11, 4, 0, 77, 50, 26, 12, 2>>,
       <<0, 0, 0, 0, 0, 32, 0, 0, 0, 0, 53, 1, 0, 0, 0, 98, 35, 1, 0, 0, 23, 7,
         2, 0, 0, 49, 23, 9, 3, 0, 55, 28, 11, 4, 0, 77, 50, 27, 13, 2>>,
       <<0, 0, 0, 0, 0, 33, 0, 0, 0, 0, 53, 1, 0, 0, 0, 98, 36, 1, 0, 0, 23, 7,
         2, 1, 0, 49, 23, 9, 3, 0, 56, 28, 12, 5, 1, 76, 50, 28, 13, 2>>,
       <<0, 0, 0, 0, 0, 33, 0, 0, 0, 0, 53, 1, 0, 0, 0, 98, 36, 1, 0, 0, 24, 8,
         2, 1, 0, 49, 24, 10, 4, 0, 56, 29, 13, 5, 1, 76, 51, 28, 14, 3>>,
       <<0, 0, 0, 0, 0, 33, 0, 0, 0, 0, 53, 1, 0, 0, 0, 97, 37, 1, 0, 0, 24, 8,
         3, 1, 0, 50, 24, 10, 4, 0, 56, 30, 13, 5, 1, 76, 51, 29, 14, 3>>,
       <<0, 0, 0, 0, 0, 34, 0, 0, 0, 0, 53, 2, 0, 0, 0, 97, 37, 1, 0, 0, 25, 9,
         3, 1, 0, 50, 25, 11, 4, 1, 56, 30, 14, 6, 1, 76, 51, 29, 15, 3>>,
       <<0, 0, 0, 0, 0, 34, 0, 0, 0, 0, 53, 2, 0, 0, 0, 97, 37, 1, 0, 0, 26, 9,
         3, 1, 0, 50, 26, 11, 5, 1, 56, 31, 14, 6, 1, 75, 51, 30, 16, 3>>,
       <<1, 0, 0, 0, 0, 35, 1, 0, 0, 0, 53, 2, 0, 0, 0, 97, 38, 2, 0, 0, 26, 10,
         3, 1, 0, 50, 26, 12, 5, 1, 56, 31, 15, 7, 1, 75, 51, 30, 16, 4>>,
       <<1, 0, 0, 0, 0, 35, 1, 0, 0, 0, 53, 2, 0, 0, 0, 96, 38, 2, 0, 0, 27, 10,
         4, 1, 0, 51, 27, 12, 5, 1, 56, 32, 15, 7, 1, 75, 52, 31, 17, 4>>,
       <<1, 0, 0, 0, 0, 35, 1, 0, 0, 0, 53, 2, 0, 0, 0, 96, 38, 2, 0, 0, 27, 11,
         4, 1, 0, 51, 27, 13, 6, 1, 56, 32, 16, 7, 1, 75, 52, 31, 17, 4>>
    >>

\* black_scholes_call: intrinsic value at T <= 0, the closed form otherwise
black_scholes_call(S, K, days, sigma) ==
    IF days <= 0 THEN Max(S - K, 0) ELSE BSTable[days][GridIndex(S, K, sigma)]

\* black_scholes_call(S, K, max(days / 365, 0.001), r, sigma) of roll_position
black_scholes_call_floor(S, K, days, sigma) ==
    IF days <= 0 THEN BSFloorTable[GridIndex(S, K, sigma)]
    ELSE BSTable[days][GridIndex(S, K, sigma)]

\* call_delta, in percent
call_delta(S, K, days, sigma) ==
    IF days <= 0 THEN (IF S > K THEN 100 ELSE 0) ELSE DeltaTable[days][GridIndex(S, K, sigma)]

\* apply_bid_ask_slippage: theoretical_price * (1 - spread_pct / 2)
apply_bid_ask_slippage(theoretical_price, spread_pct) ==
    (theoretical_price * (200 - spread_pct)) \div 200

\* the ask side of roll_position: buyback_price * (1 + spread_pct / 2)
apply_ask_slippage(buyback_price, spread_pct) ==
    (buyback_price * (200 + spread_pct)) \div 200

-----------------------------------------------------------------------------
(* Strategy Engine (strategy.py) *)

\* CoveredCallStrategy.__init__
NewStrategy ==
    [ position                |-> None,
      shares_held             |-> 0,
      trades                  |-> <<>>,
      total_premium_collected |-> 0,
      total_commissions       |-> 0,
      times_called_away       |-> 0 ]

TradeRecord(date, action, strike, expiration, premium, stock_price, shares) ==
    [ date |-> date, action |-> action, strike |-> strike,
      expiration |-> expiration, premium |-> premium,
      stock_price |-> stock_price, shares |-> shares ]

\* the last n records of a trade log
LastTrades(trades, n) == SubSeq(trades, Len(trades) - n + 1, Len(trades))

\* select_strike: the penny floor on a candidate's net price (0.01 dollars)
PennyFloor(net_price) == net_price < 1000

\* select_strike: score = annualized_return * (1 - 0.5 * delta), on an integer scale
\* (net price to 1e-4 dollars, stock price in cents)
Score(net_price, delta, stock_price, dte) ==
    ((net_price \div 10) * 365 * (200 - delta)) \div ((stock_price \div 1000) * dte)

\* Skipped without the 2 percent buffer above the stock price (mutation of Skipped)
Skipped_NoBuffer(c, strike, stock_price, sigma, dte) ==
    \/ strike < c.min_strike
    \/ strike < stock_price
    \/ PennyFloor(apply_bid_ask_slippage(
           black_scholes_call(stock_price, strike, dte, sigma), c.bid_ask_spread_pct))

\* select_strike: a candidate the loop skips before scoring it
Skipped(c, strike, stock_price, sigma, dte) ==
    \/ strike < c.min_strike
    \/ strike * 100 <= stock_price * 102
    \/ PennyFloor(apply_bid_ask_slippage(
           black_scholes_call(stock_price, strike, dte, sigma), c.bid_ask_spread_pct))

\* select_strike: the loop over strike_candidates from index k, carrying
\* <<best_strike, best_score>>
RECURSIVE BestStrike(_, _, _, _, _, _)
BestStrike(c, k, best, stock_price, sigma, dte) ==
    IF k > Len(c.strike_candidates) THEN best
    ELSE LET strike == c.strike_candidates[k]
             net    == apply_bid_ask_slippage(
                           black_scholes_call(stock_price, strike, dte, sigma),
                           c.bid_ask_spread_pct)
             score  == Score(net, call_delta(stock_price, strike, dte, sigma),
                             stock_price, dte)
         IN  IF Skipped(c, strike, stock_price, sigma, dte)
             THEN BestStrike(c, k + 1, best, stock_price, sigma, dte)
             ELSE IF score > best[2]
                  THEN BestStrike(c, k + 1, <<strike, score>>, stock_price, sigma, dte)
                  ELSE BestStrike(c, k + 1, best, stock_price, sigma, dte)

\* select_strike -> <<strike, theoretical_premium>>
select_strike(c, stock_price, sigma, dte) ==
    LET best_strike == BestStrike(c, 1, <<c.min_strike, -1>>, stock_price, sigma, dte)[1]
    IN  <<best_strike, black_scholes_call(stock_price, best_strike, dte, sigma)>>

\* open_stock_position
open_stock_position(c, s, current_date, stock_price) ==
    [ s EXCEPT
        !.shares_held = c.shares,
        !.trades = Append(@, TradeRecord(current_date, "BUY_STOCK", NoValue, NoValue,
                                         -(stock_price * c.shares), stock_price,
                                         c.shares)) ]

\* sell_call: the total premium of the sale, net of slippage and commission
TotalPremium(net_premium, contracts, commission) ==
    net_premium * contracts * 100 - commission

\* sell_call sizing the sale by the configured lot instead of the shares held
\* (mutation of sell_call)
sell_call_ConfigLot(c, s, current_date, stock_price, sigma, dte) ==
    LET sel           == select_strike(c, stock_price, sigma, dte)
        strike        == sel[1]
        net_premium   == apply_bid_ask_slippage(sel[2], c.bid_ask_spread_pct)
        contracts     == c.shares \div 100
        commission    == contracts * c.commission_per_contract
        total_premium == TotalPremium(net_premium, contracts, commission)
        expiration    == current_date + dte
    IN  [ s EXCEPT
            !.position = << [ strike            |-> strike,
                              expiration        |-> expiration,
                              premium_received  |-> total_premium,
                              contracts         |-> contracts,
                              entry_date        |-> current_date,
                              entry_stock_price |-> stock_price ] >>,
            !.total_premium_collected = @ + total_premium,
            !.total_commissions = @ + commission,
            !.trades = Append(@, TradeRecord(current_date, "SELL_CALL", strike,
                                             expiration, total_premium, stock_price,
                                             s.shares_held)) ]

\* sell_call adding the premium before commission to total_premium_collected
\* (mutation of sell_call)
sell_call_GrossTotal(c, s, current_date, stock_price, sigma, dte) ==
    LET sel           == select_strike(c, stock_price, sigma, dte)
        strike        == sel[1]
        net_premium   == apply_bid_ask_slippage(sel[2], c.bid_ask_spread_pct)
        contracts     == s.shares_held \div 100
        commission    == contracts * c.commission_per_contract
        total_premium == TotalPremium(net_premium, contracts, commission)
        expiration    == current_date + dte
    IN  [ s EXCEPT
            !.position = << [ strike            |-> strike,
                              expiration        |-> expiration,
                              premium_received  |-> total_premium,
                              contracts         |-> contracts,
                              entry_date        |-> current_date,
                              entry_stock_price |-> stock_price ] >>,
            !.total_premium_collected = @ + total_premium + commission,
            !.total_commissions = @ + commission,
            !.trades = Append(@, TradeRecord(current_date, "SELL_CALL", strike,
                                             expiration, total_premium, stock_price,
                                             s.shares_held)) ]

\* sell_call
sell_call(c, s, current_date, stock_price, sigma, dte) ==
    LET sel           == select_strike(c, stock_price, sigma, dte)
        strike        == sel[1]
        net_premium   == apply_bid_ask_slippage(sel[2], c.bid_ask_spread_pct)
        contracts     == s.shares_held \div 100
        commission    == contracts * c.commission_per_contract
        total_premium == TotalPremium(net_premium, contracts, commission)
        expiration    == current_date + dte
    IN  [ s EXCEPT
            !.position = << [ strike            |-> strike,
                              expiration        |-> expiration,
                              premium_received  |-> total_premium,
                              contracts         |-> contracts,
                              entry_date        |-> current_date,
                              entry_stock_price |-> stock_price ] >>,
            !.total_premium_collected = @ + total_premium,
            !.total_commissions = @ + commission,
            !.trades = Append(@, TradeRecord(current_date, "SELL_CALL", strike,
                                             expiration, total_premium, stock_price,
                                             s.shares_held)) ]

\* Expired with the comparison off by one day (mutation of Expired)
Expired_DayEarly(position, current_date) == ~(current_date + 1 < position.expiration)

\* a position taken as expired on its expiration date only, not after it (mutation
\* of Expired)
Expired_OnTheDayOnly(position, current_date) == current_date = position.expiration

\* every open position taken as expired (mutation of Expired)
Expired_Always(position, current_date) == TRUE

\* check_expiration: has the date reached the position's expiration?
Expired(position, current_date) == ~(current_date < position.expiration)

\* every expiring call counted as in the money (mutation of Assigned)
Assigned_Always(position, stock_price) == TRUE

\* check_expiration: is the call assigned at this price?
Assigned(position, stock_price) == stock_price >= position.strike

\* check_expiration whose worthless-expiry branch also gives up the shares, as the
\* assignment branch does (mutation of check_expiration)
check_expiration_DropsShares(s, current_date, stock_price) ==
    IF s.position = None THEN s
    ELSE LET p == s.position[1] IN
         IF ~Expired(p, current_date) THEN s
         ELSE IF Assigned(p, stock_price)
              THEN [ s EXCEPT
                       !.times_called_away = @ + 1,
                       !.shares_held = 0,
                       !.position = None,
                       !.trades = Append(@, TradeRecord(current_date, "CALLED_AWAY",
                                         p.strike, p.expiration, 0, stock_price,
                                         s.shares_held)) ]
              ELSE [ s EXCEPT
                       !.shares_held = 0,
                       !.position = None,
                       !.trades = Append(@, TradeRecord(current_date, "EXPIRE",
                                         p.strike, p.expiration, 0, stock_price,
                                         s.shares_held)) ]

\* check_expiration whose EXPIRE record takes the place of the last log entry
\* (mutation of check_expiration)
check_expiration_Overwrites(s, current_date, stock_price) ==
    IF s.position = None THEN s
    ELSE LET p == s.position[1] IN
         IF ~Expired(p, current_date) THEN s
         ELSE IF Assigned(p, stock_price)
              THEN [ s EXCEPT
                       !.times_called_away = @ + 1,
                       !.shares_held = 0,
                       !.position = None,
                       !.trades = Append(@, TradeRecord(current_date, "CALLED_AWAY",
                                         p.strike, p.expiration, 0, stock_price,
                                         s.shares_held)) ]
              ELSE [ s EXCEPT
                       !.position = None,
                       !.trades = Append(SubSeq(@, 1, Len(@) - 1),
                                         TradeRecord(current_date, "EXPIRE",
                                         p.strike, p.expiration, 0, stock_price,
                                         s.shares_held)) ]

\* check_expiration: the state it leaves (unchanged when it returns None)
check_expiration(s, current_date, stock_price) ==
    IF s.position = None THEN s
    ELSE LET p == s.position[1] IN
         IF ~Expired(p, current_date) THEN s
         ELSE IF Assigned(p, stock_price)
              THEN [ s EXCEPT
                       !.times_called_away = @ + 1,
                       !.shares_held = 0,
                       !.position = None,
                       !.trades = Append(@, TradeRecord(current_date, "CALLED_AWAY",
                                         p.strike, p.expiration, 0, stock_price,
                                         s.shares_held)) ]
              ELSE [ s EXCEPT
                       !.position = None,
                       !.trades = Append(@, TradeRecord(current_date, "EXPIRE",
                                         p.strike, p.expiration, 0, stock_price,
                                         s.shares_held)) ]

\* check_expiration: the trade it returns, as a sequence (empty for None)
expiration_trade(s, current_date, stock_price) ==
    LastTrades(check_expiration(s, current_date, stock_price).trades,
               Len(check_expiration(s, current_date, stock_price).trades) - Len(s.trades))

\* should_roll: the division premium_received / (contracts * 100) is reached with
\* a divisor of 0 and raises ZeroDivisionError
should_roll_raises(c, s, current_date) ==
    /\ s.position # None
    /\ s.position[1].expiration - current_date > c.roll_dte_threshold
    /\ s.position[1].contracts * 100 = 0

\* should_roll, where it returns
should_roll(c, s, current_date, stock_price, sigma) ==
    IF s.position = None THEN FALSE
    ELSE LET p              == s.position[1]
             days_remaining == p.expiration - current_date
         IN  IF days_remaining <= c.roll_dte_threshold THEN TRUE
             ELSE LET current_value == black_scholes_call(stock_price, p.strike,
                                                          days_remaining, sigma)
                      original_premium_per_share ==
                          p.premium_received \div (p.contracts * 100)
                      profit_captured == original_premium_per_share - current_value
                  IN  profit_captured * 100 >=
                          original_premium_per_share * c.roll_profit_pct

\* roll_position that leaves the buyback's commission out of total_commissions
\* (mutation of roll_position)
roll_position_BuybackUncounted(c, s, current_date, stock_price, sigma) ==
    LET bought ==
            IF s.position = None THEN s
            ELSE LET p              == s.position[1]
                     days_remaining == p.expiration - current_date
                     buyback_price  == black_scholes_call_floor(stock_price, p.strike,
                                                                days_remaining, sigma)
                     buyback_cost   == apply_ask_slippage(buyback_price,
                                                          c.bid_ask_spread_pct)
                     commission     == p.contracts * c.commission_per_contract
                     total_cost     == buyback_cost * p.contracts * 100 + commission
                 IN  [ s EXCEPT
                         !.position = None,
                         !.trades = Append(@, TradeRecord(current_date, "ROLL", p.strike,
                                           p.expiration, -total_cost, stock_price,
                                           s.shares_held)) ]
    IN  sell_call(c, bought, current_date, stock_price, sigma, c.target_dte)

\* roll_position
roll_position(c, s, current_date, stock_price, sigma) ==
    LET bought ==
            IF s.position = None THEN s
            ELSE LET p              == s.position[1]
                     days_remaining == p.expiration - current_date
                     buyback_price  == black_scholes_call_floor(stock_price, p.strike,
                                                                days_remaining, sigma)
                     buyback_cost   == apply_ask_slippage(buyback_price,
                                                          c.bid_ask_spread_pct)
                     commission     == p.contracts * c.commission_per_contract
                     total_cost     == buyback_cost * p.contracts * 100 + commission
                 IN  [ s EXCEPT
                         !.total_commissions = @ + commission,
                         !.position = None,
                         !.trades = Append(@, TradeRecord(current_date, "ROLL", p.strike,
                                           p.expiration, -total_cost, stock_price,
                                           s.shares_held)) ]
    IN  sell_call(c, bought, current_date, stock_price, sigma, c.target_dte)

-----------------------------------------------------------------------------
(* Cash-Floor Monitor (cash_floor.py) *)

\* CashFloorMonitor.__init__; the ratios in percent (defaults 1.5 and 0.8)
CashFloorMonitor(initial_net_cash, quarterly_burn, warning_ratio, danger_ratio) ==
    [ initial_net_cash |-> initial_net_cash,
      quarterly_burn   |-> quarterly_burn,
      warning_ratio    |-> warning_ratio,
      danger_ratio     |-> danger_ratio,
      snapshots        |-> <<>> ]

\* the estimate without its floor (mutation of estimate_cash_at_date)
estimate_cash_at_date_NoFloor(m, start_date, current_date) ==
    m.initial_net_cash - (m.quarterly_burn * (current_date - start_date)) \div 90

\* estimate_cash_at_date: initial - burn * (elapsed days / 90), floored at 0
estimate_cash_at_date(m, start_date, current_date) ==
    Max(m.initial_net_cash - (m.quarterly_burn * (current_date - start_date)) \div 90, 0)

\* check: rules (a)-(c), an if / elif / elif chain -> <<warning, thesis_intact>>
FirstRules(m, est_cash, stock_price) ==
    IF est_cash <= 0 THEN <<"CRITICAL", FALSE>>
    ELSE IF stock_price * 100 > est_cash * m.warning_ratio THEN <<"WEAKENED", TRUE>>
    ELSE IF stock_price * 100 < est_cash * m.danger_ratio THEN <<"BELOW_CASH", TRUE>>
    ELSE <<"", TRUE>>

\* rule (d) keeping the warning an earlier rule has set (mutation of BurnRule)
BurnRule_KeepsWarning(m, est_cash, first) ==
    IF est_cash * 2 < m.initial_net_cash
    THEN <<IF first[1] = "" THEN "BURN_ALERT" ELSE first[1], FALSE>>
    ELSE first

\* check: rule (d), a separate if after the chain
BurnRule(m, est_cash, first) ==
    IF est_cash * 2 < m.initial_net_cash THEN <<"BURN_ALERT", FALSE>> ELSE first

\* CashFloorMonitor.check -> the CashFloorSnapshot it appends and returns
check(m, current_date, stock_price, start_date) ==
    LET est_cash == estimate_cash_at_date(m, start_date, current_date)
        ratio    == IF est_cash > 0 THEN (stock_price * 100) \div est_cash ELSE NoValue
        final    == BurnRule(m, est_cash, FirstRules(m, est_cash, stock_price))
    IN  [ date |-> current_date, stock_price |-> stock_price,
          estimated_net_cash_per_share |-> est_cash,
          market_cap_to_cash_ratio |-> ratio,
          thesis_intact |-> final[2], warning |-> final[1] ]

-----------------------------------------------------------------------------
(* Backtest Engine (backtest.py): CoveredCallBacktest.run *)

\* initial_investment = first_price * shares
InitialInvestment(c, first_price) == first_price * c.shares

\* the sum of the premium fields of a trade log
RECURSIVE SumPremium(_)
SumPremium(trades) ==
    IF trades = <<>> THEN 0
    ELSE trades[Len(trades)].premium + SumPremium(SubSeq(trades, 1, Len(trades) - 1))

\* the state after the window filter and the set-up of run (lines 93-107), at the
\* first row of df. The day loop (lines 109-189) does not depend on the length of the
\* frame; it is followed here over frames of up to MaxDays rows with the expiry
\* targets of Configs, and over whole runs of MinObservations rows and more, with
\* the length test of lines 86-87, under SpecRun below.
Init ==
    /\ config \in Configs
    /\ iv \in IVs
    /\ pc = "entry"
    /\ i = 0
    /\ \E first_price \in Spots :
          /\ row = [Date |-> 0, Close |-> first_price]
          /\ cash = InitialInvestment(config, first_price)
          /\ day0 = [ strategy |-> NewStrategy,
                      cash |-> InitialInvestment(config, first_price) ]
    /\ strategy = NewStrategy
    /\ cash_monitor = CashFloorMonitor(config.net_cash_per_share,
                                       config.cash_burn_per_quarter, 150, 80)
    /\ equity_curve = <<>>
    /\ cash_warnings = <<>>
    /\ \E n \in 1..MaxDays :
          /\ prices = [ len |-> n, closes |-> Spots, gaps |-> Gaps,
                        start_date |-> NoValue, end_date |-> NoValue ]
          /\ df = [len |-> n, closes |-> Spots, gaps |-> Gaps]
    /\ result = None
    /\ runs = <<>>

\* the stock bought only while the last cash-floor snapshot, if any, holds the
\* thesis intact (mutation of EntryDue)
EntryDue_ThesisIntact(s, idx) ==
    /\ s.shares_held = 0
    /\ s.position = None
    /\ \/ cash_monitor.snapshots = <<>>
       \/ cash_monitor.snapshots[Len(cash_monitor.snapshots)].thesis_intact

\* EntryDue without the test that the strategy is flat (mutation of EntryDue)
EntryDue_Unguarded(s, idx) == idx = 0 \/ s.times_called_away > 0

\* EntryDue without the re-entry after an assignment (mutation of EntryDue)
EntryDue_FirstDayOnly(s, idx) ==
    /\ s.shares_held = 0
    /\ s.position = None
    /\ idx = 0

\* "Day 0: buy stock and sell first call": is the entry block taken?
EntryDue(s, idx) ==
    /\ s.shares_held = 0
    /\ s.position = None
    /\ (idx = 0 \/ s.times_called_away > 0)

\* the entry block: the strategy after open_stock_position and sell_call
EntryStrategy(c, s, current_date, stock_price, sigma) ==
    sell_call(c, open_stock_position(c, s, current_date, stock_price),
              current_date, stock_price, sigma, c.target_dte)

\* the entry block: cash -= cost; cash += sell_trade.premium
EntryCash(c, s, csh, current_date, stock_price, sigma) ==
    csh - stock_price * c.shares
        + EntryStrategy(c, s, current_date, stock_price, sigma)
              .trades[Len(s.trades) + 2].premium

\* lines 109-124: the row is read and the entry block runs
Entry ==
    /\ pc = "entry"
    /\ day0' = [strategy |-> strategy, cash |-> cash]
    /\ IF EntryDue(strategy, i)
       THEN /\ strategy' = EntryStrategy(config, strategy, row.Date, row.Close, iv)
            /\ cash' = EntryCash(config, strategy, cash, row.Date, row.Close, iv)
       ELSE UNCHANGED <<strategy, cash>>
    /\ pc' = "expiration"
    /\ UNCHANGED <<config, iv, i, row, cash_monitor, equity_curve, cash_warnings,
                   prices, df, result, runs>>

\* the proceeds taken at the market price instead of the strike (mutation of
\* AssignmentProceeds)
AssignmentProceeds_AtSpot(c, exp_trade) == c.shares * exp_trade.stock_price

\* "Receive strike price * shares"
AssignmentProceeds(c, exp_trade) == c.shares * exp_trade.strike

\* the expiration block without the replacement sale after a worthless expiry
\* (mutation of AfterExpiration)
AfterExpiration_NoResell(c, s, csh, exp_trade, current_date, stock_price, sigma) ==
    IF exp_trade.action = "CALLED_AWAY"
    THEN <<s, csh + c.shares * exp_trade.strike>>
    ELSE <<s, csh>>

\* AfterExpiration buying the stock back and selling a call on the day of the
\* assignment itself (mutation of AfterExpiration)
AfterExpiration_RebuysAtOnce(c, s, csh, exp_trade, current_date, stock_price, sigma) ==
    IF exp_trade.action = "CALLED_AWAY"
    THEN LET bought == open_stock_position(c, s, current_date, stock_price)
             sold   == sell_call(c, bought, current_date, stock_price, sigma,
                                 c.target_dte)
         IN  <<sold, csh + AssignmentProceeds(c, exp_trade)
                         + SumPremium(LastTrades(sold.trades, 2))>>
    ELSE IF exp_trade.action = "EXPIRE"
    THEN LET sold == sell_call(c, s, current_date, stock_price, sigma, c.target_dte)
         IN  <<sold, csh + sold.trades[Len(sold.trades)].premium>>
    ELSE <<s, csh>>

\* the branch of the expiration block taken after check_expiration returned a trade
AfterExpiration(c, s, csh, exp_trade, current_date, stock_price, sigma) ==
    IF exp_trade.action = "CALLED_AWAY"
    THEN <<s, csh + AssignmentProceeds(c, exp_trade)>>
    ELSE IF exp_trade.action = "EXPIRE"
    THEN LET sold == sell_call(c, s, current_date, stock_price, sigma, c.target_dte)
         IN  <<sold, csh + sold.trades[Len(sold.trades)].premium>>
    ELSE <<s, csh>>

\* the early-roll block: roll_position and cash += t.premium for both trades
AfterRoll(c, s, csh, current_date, stock_price, sigma) ==
    LET rolled == roll_position(c, s, current_date, stock_price, sigma)
    IN  <<rolled,
          csh + SumPremium(LastTrades(rolled.trades, Len(rolled.trades) - Len(s.trades)))>>

\* lines 126-148: if position is not None: expiration; elif position is not None: roll
ExpirationOrRoll(c, s, csh, current_date, stock_price, sigma) ==
    IF s.position # None
    THEN LET checked   == check_expiration(s, current_date, stock_price)
             exp_trade == expiration_trade(s, current_date, stock_price)
         IN  IF exp_trade # <<>>
             THEN AfterExpiration(c, checked, csh, exp_trade[1], current_date,
                                  stock_price, sigma)
             ELSE <<s, csh>>
    ELSE IF s.position # None
    THEN IF should_roll(c, s, current_date, stock_price, sigma)
         THEN AfterRoll(c, s, csh, current_date, stock_price, sigma)
         ELSE <<s, csh>>
    ELSE <<s, csh>>

Expiration ==
    /\ pc = "expiration"
    /\ strategy' = ExpirationOrRoll(config, strategy, cash, row.Date, row.Close, iv)[1]
    /\ cash' = ExpirationOrRoll(config, strategy, cash, row.Date, row.Close, iv)[2]
    /\ pc' = "cash_floor"
    /\ UNCHANGED <<config, iv, i, row, cash_monitor, equity_curve, cash_warnings, day0,
                   prices, df, result, runs>>

\* the check left out on the first row (mutation of CheckDue)
CheckDue_SkipsFirst(idx) == idx > 0 /\ idx % 5 = 0

\* "Cash floor check (weekly)": the rows it runs on
CheckDue(idx) == idx % 5 = 0

\* lines 150-156
CashFloor ==
    /\ pc = "cash_floor"
    /\ IF CheckDue(i)
       THEN LET snapshot == check(cash_monitor, row.Date, row.Close, 0) IN
            /\ cash_monitor' = [cash_monitor EXCEPT !.snapshots = Append(@, snapshot)]
            /\ cash_warnings' = IF snapshot.warning # ""
                                THEN Append(cash_warnings, <<row.Date, snapshot.warning>>)
                                ELSE cash_warnings
       ELSE UNCHANGED <<cash_monitor, cash_warnings>>
    /\ pc' = "equity"
    /\ UNCHANGED <<config, iv, i, row, strategy, cash, equity_curve, day0,
                   prices, df, result, runs>>

\* mark-to-market value of the short call
OptionLiability(s, current_date, stock_price, sigma) ==
    IF s.position = None THEN 0
    ELSE LET p == s.position[1]
             days_remaining == p.expiration - current_date
         IN  IF days_remaining > 0
             THEN black_scholes_call(stock_price, p.strike, days_remaining, sigma)
                      * p.contracts * 100
             ELSE 0

\* the snapshot valuing the configured lot, held or not (mutation of EquitySnapshot)
EquitySnapshot_LotValue(s, csh, current_date, stock_price, sigma) ==
    LET stock_value      == config.shares * stock_price
        option_liability == OptionLiability(s, current_date, stock_price, sigma)
    IN  [ Date |-> current_date, Equity |-> csh + stock_value - option_liability,
          StockPrice |-> stock_price, Cash |-> csh, StockValue |-> stock_value,
          OptionLiability |-> option_liability, IV |-> sigma ]

\* the DailyEquitySnapshot of the row
EquitySnapshot(s, csh, current_date, stock_price, sigma) ==
    LET stock_value      == s.shares_held * stock_price
        option_liability == OptionLiability(s, current_date, stock_price, sigma)
    IN  [ Date |-> current_date, Equity |-> csh + stock_value - option_liability,
          StockPrice |-> stock_price, Cash |-> csh, StockValue |-> stock_value,
          OptionLiability |-> option_liability, IV |-> sigma ]

\* lines 158-189, then the loop moves to the next row of df or ends with the series
Equity ==
    /\ pc = "equity"
    /\ equity_curve' = Append(equity_curve,
                              EquitySnapshot(strategy, cash, row.Date, row.Close, iv))
    /\ \/ /\ i + 1 < df.len
          /\ \E gap \in df.gaps, close \in df.closes :
                row' = [Date |-> row.Date + gap, Close |-> close]
          /\ i' = i + 1
          /\ pc' = "entry"
       \/ /\ i + 1 >= df.len
          /\ pc' = "done"
          /\ UNCHANGED <<i, row>>
    /\ UNCHANGED <<config, iv, strategy, cash_monitor, cash, cash_warnings, day0,
                   prices, df, result, runs>>

\* the first day's equity taken as the peak of every day (mutation of RunningMax)
RunningMax_First(values, k) == values[1]

\* np.maximum.accumulate(equity_values)[k]
RECURSIVE RunningMax(_, _)
RunningMax(values, k) ==
    IF k = 1 THEN values[1] ELSE Max(values[k], RunningMax(values, k - 1))

\* drawdowns[k] = (equity_values[k] - running_max[k]) / running_max[k], in units of
\* 0.01 percent
Drawdown(values, k) ==
    (values[k] - RunningMax(values, k)) \div (RunningMax(values, k) \div 10000)

\* drawdowns.min() * 100, over the first k days
RECURSIVE MaxDrawdown(_, _)
MaxDrawdown(values, k) ==
    IF k = 1 THEN Drawdown(values, 1)
    ELSE LET d == Drawdown(values, k)
             m == MaxDrawdown(values, k - 1)
         IN  IF d < m THEN d ELSE m

\* the dates of the SELL_CALL trades
SellDates(trades) ==
    LET sells == SelectSeq(trades, LAMBDA t : t.action = "SELL_CALL")
    IN  [k \in 1..Len(sells) |-> sells[k].date]

\* lines 191-252: the BacktestResult of the run; returns in units of 0.01 percent.
\* annualized_return_pct and sharpe_ratio (a power and a square root) are left out.
BacktestResult(c, s, curve, warnings) ==
    LET equity_values      == [k \in 1..Len(curve) |-> curve[k].Equity]
        final_equity       == equity_values[Len(curve)]
        first_price        == curve[1].StockPrice
        last_price         == curve[Len(curve)].StockPrice
        initial_investment == InitialInvestment(c, first_price)
        total_return       == (final_equity - initial_investment)
                                  \div (initial_investment \div 10000)
        stock_only_return  == ((last_price - first_price) * 10000) \div first_price
        sell_dates         == SellDates(s.trades)
    IN  [ total_return_pct        |-> total_return,
          stock_only_return_pct   |-> stock_only_return,
          excess_return_pct       |-> total_return - stock_only_return,
          total_premium_collected |-> s.total_premium_collected,
          total_commissions       |-> s.total_commissions,
          net_premium             |-> s.total_premium_collected - s.total_commissions,
          max_drawdown_pct        |-> MaxDrawdown(equity_values, Len(curve)),
          num_trades              |-> Len(s.trades),
          times_called_away       |-> s.times_called_away,
          avg_days_per_cycle      |->
              IF Len(sell_dates) > 1
              THEN (sell_dates[Len(sell_dates)] - sell_dates[1])
                       \div (Len(sell_dates) - 1)
              ELSE 0,
          trades                  |-> s.trades,
          daily_equity            |-> curve,
          cash_floor_warnings     |-> warnings ]

\* lines 191-252: the metrics are computed and run returns
Finish ==
    /\ pc = "done"
    /\ result' = << BacktestResult(config, strategy, equity_curve, cash_warnings) >>
    /\ pc' = "returned"
    /\ UNCHANGED <<config, iv, i, row, strategy, cash_monitor, cash, equity_curve,
                   cash_warnings, day0, prices, df, runs>>

Next == Entry \/ Expiration \/ CashFloor \/ Equity \/ Finish

Spec == Init /\ [][Next]_vars

-----------------------------------------------------------------------------
(* The whole of run, called on one CoveredCallBacktest object with the default
   configuration and a flat price series *)

\* "Need at least 30 trading days for backtest"
MinObservations == 30

\* the frames run is called with have MinObservations - RunSlack ..
\* MinObservations + RunSlack rows, and the window cuts up to RunSlack rows at
\* either end
RunSlack == 2

\* calls of run on the same object, with the same arguments
MaxRuns == 2

\* the rows (consecutive dates 0 .. len - 1) the date window keeps
InWindow(p) ==
    { d \in 0..(p.len - 1) :
        /\ (p.start_date = NoValue \/ d >= p.start_date)
        /\ (p.end_date = NoValue \/ d <= p.end_date) }

\* a frame of exactly MinObservations rows rejected too (mutation of TooFew)
TooFew_Inclusive(n) == n <= MinObservations

\* len(df) < 30
TooFew(n) == n < MinObservations

\* the arguments of run: a frame of one closing price on consecutive dates, and a
\* date window that may be absent at either end
RunInputs ==
    { [ len |-> n, closes |-> {close}, gaps |-> {1}, start_date |-> sd, end_date |-> ed ] :
        n \in (MinObservations - RunSlack)..(MinObservations + RunSlack),
        close \in Spots,
        sd \in {NoValue} \cup 0..RunSlack,
        ed \in {NoValue} \cup {MinObservations + RunSlack - k : k \in 1..(2 * RunSlack + 1)} }

\* the default configuration, and two that differ from it in the cash-floor
\* parameters only
RunConfigs ==
    { [CoveredCallConfig(30, 5) EXCEPT !.net_cash_per_share = f[1],
                                       !.cash_burn_per_quarter = f[2]] :
        f \in {<<150000, 10000>>, <<150000, 300000>>, <<400000, 10000>>} }

\* the strategy of an earlier run used again (mutation of CoveredCallStrategy)
CoveredCallStrategy_Shared(c) == strategy

\* CoveredCallStrategy(self.config)
CoveredCallStrategy(c) == NewStrategy

\* before run is called nothing of a run exists
InitRun ==
    /\ config \in RunConfigs
    /\ iv = IVFloor
    /\ pc = "filter"
    /\ prices \in RunInputs
    /\ df = [len |-> 0, closes |-> {}, gaps |-> {}]
    /\ i = 0
    /\ row = [Date |-> 0, Close |-> 0]
    /\ strategy = NewStrategy
    /\ cash_monitor = CashFloorMonitor(0, 0, 150, 80)
    /\ cash = 0
    /\ equity_curve = <<>>
    /\ cash_warnings = <<>>
    /\ day0 = [strategy |-> NewStrategy, cash |-> 0]
    /\ result = None
    /\ runs = <<>>

\* lines 78-107: the window filter, the length test and the set-up of the run
\* (dates are renumbered from the first row kept)
Setup ==
    /\ pc = "filter"
    /\ IF TooFew(Cardinality(InWindow(prices)))
       THEN /\ pc' = "error"
            /\ UNCHANGED <<i, row, strategy, cash_monitor, cash, equity_curve,
                           cash_warnings, day0, df, result>>
       ELSE /\ df' = [ len |-> Cardinality(InWindow(prices)),
                       closes |-> prices.closes, gaps |-> prices.gaps ]
            /\ strategy' = CoveredCallStrategy(config)
            /\ cash_monitor' = CashFloorMonitor(config.net_cash_per_share,
                                                config.cash_burn_per_quarter, 150, 80)
            /\ \E first_price \in prices.closes :
                  /\ row' = [Date |-> 0, Close |-> first_price]
                  /\ cash' = InitialInvestment(config, first_price)
                  /\ day0' = [ strategy |-> CoveredCallStrategy(config),
                               cash |-> InitialInvestment(config, first_price) ]
            /\ i' = 0
            /\ equity_curve' = <<>>
            /\ cash_warnings' = <<>>
            /\ result' = None
            /\ pc' = "entry"
    /\ UNCHANGED <<config, iv, prices, runs>>

\* run is called again on the same object with the same arguments, under the same
\* configuration or another of RunConfigs; what the earlier call left behind is
\* still there, and runs keeps what it returned and ended with
Rerun ==
    /\ pc = "returned"
    /\ Len(runs) + 1 < MaxRuns
    /\ runs' = Append(runs, [ config |-> config, result |-> result[1],
                              strategy |-> strategy, cash |-> cash ])
    /\ config' \in RunConfigs
    /\ pc' = "filter"
    /\ UNCHANGED <<iv, i, row, strategy, cash_monitor, cash, equity_curve,
                   cash_warnings, day0, prices, df, result>>

NextRun == Setup \/ Entry \/ Expiration \/ CashFloor \/ Equity \/ Finish \/ Rerun

SpecRun == InitRun /\ [][NextRun]_vars

-----------------------------------------------------------------------------
(* Scenario A: the default configuration over a flat price series below the
   minimum strike *)

\* rows of the series, on consecutive dates
ScenarioDays == 40

\* the closing prices of Spots below min_strike
BelowMinStrike == {close \in Spots : close < CoveredCallConfig(30, 5).min_strike}

InitA ==
    /\ config = CoveredCallConfig(30, 5)
    /\ iv = IVFloor
    /\ pc = "entry"
    /\ i = 0
    /\ \E flat \in BelowMinStrike :
          /\ row = [Date |-> 0, Close |-> flat]
          /\ cash = InitialInvestment(config, flat)
          /\ day0 = [strategy |-> NewStrategy, cash |-> InitialInvestment(config, flat)]
          /\ prices = [ len |-> ScenarioDays, closes |-> {flat}, gaps |-> {1},
                        start_date |-> NoValue, end_date |-> NoValue ]
          /\ df = [len |-> ScenarioDays, closes |-> {flat}, gaps |-> {1}]
    /\ strategy = NewStrategy
    /\ cash_monitor = CashFloorMonitor(config.net_cash_per_share,
                                       config.cash_burn_per_quarter, 150, 80)
    /\ equity_curve = <<>>
    /\ cash_warnings = <<>>
    /\ result = None
    /\ runs = <<>>

SpecA == InitA /\ [][Next]_vars

-----------------------------------------------------------------------------
(* select_strike on its own, over configurations, prices, volatilities and days to
   expiration *)

\* days to expiration 0 .. MaxDte
MaxDte == 30

\* the default candidate list, and the same strikes in descending order
CandidateLists ==
    { StrikeCandidates,
      [k \in 1..Len(StrikeCandidates) |->
          StrikeCandidates[Len(StrikeCandidates) + 1 - k]] }

\* configurations that differ in target_dte, min_strike and the order of
\* strike_candidates
StrikeConfigs ==
    { [CoveredCallConfig(dte, 5) EXCEPT !.min_strike = m, !.strike_candidates = l] :
        dte \in 0..MaxDte, m \in {250000, 300000, 350000}, l \in CandidateLists }

InitStrike ==
    /\ config \in StrikeConfigs
    /\ iv \in IVs
    /\ pc = "select"
    /\ i = 0
    /\ \E stock_price \in Spots : row = [Date |-> 0, Close |-> stock_price]
    /\ strategy = NewStrategy
    /\ cash_monitor = CashFloorMonitor(config.net_cash_per_share,
                                       config.cash_burn_per_quarter, 150, 80)
    /\ cash = 0
    /\ equity_curve = <<>>
    /\ cash_warnings = <<>>
    /\ day0 = [strategy |-> NewStrategy, cash |-> 0]
    /\ prices = [ len |-> 0, closes |-> {}, gaps |-> {},
                  start_date |-> NoValue, end_date |-> NoValue ]
    /\ df = [len |-> 0, closes |-> {}, gaps |-> {}]
    /\ result = None
    /\ runs = <<>>

\* strategy.select_strike(stock_price, iv, dte), as sell_call calls it
SelectStrike ==
    /\ pc = "select"
    /\ result' = << select_strike(config, row.Close, iv, config.target_dte) >>
    /\ pc' = "selected"
    /\ UNCHANGED <<config, iv, i, row, strategy, cash_monitor, cash, equity_curve,
                   cash_warnings, day0, prices, df, runs>>

SpecStrike == InitStrike /\ [][SelectStrike]_vars

-----------------------------------------------------------------------------
(* CashFloorMonitor on its own, over monitor parameters, dates and prices *)

\* calls of check on one monitor
MaxChecks == 2

\* monitors: the defaults, no cash, more cash, no burn, a fast burn, and ratios
\* under which rules (b) and (c) overlap
Monitors ==
    { CashFloorMonitor(n, b, r[1], r[2]) :
        n \in {0, 150000, 400000}, b \in {0, 10000, 300000},
        r \in {<<150, 80>>, <<50, 80>>} }

\* days since start_date at which check is called
CheckDays == {0, 45, 450, 700, 1400}

\* stock prices check is called with
CheckPrices == {50000, 100000, 200000, 290000}

InitMonitor ==
    /\ cash_monitor \in Monitors
    /\ config = [CoveredCallConfig(30, 5) EXCEPT
                    !.net_cash_per_share = cash_monitor.initial_net_cash,
                    !.cash_burn_per_quarter = cash_monitor.quarterly_burn]
    /\ iv = IVFloor
    /\ pc = "check"
    /\ i = 0
    /\ row = [Date |-> 0, Close |-> 0]
    /\ strategy = NewStrategy
    /\ cash = 0
    /\ equity_curve = <<>>
    /\ cash_warnings = <<>>
    /\ day0 = [strategy |-> NewStrategy, cash |-> 0]
    /\ prices = [ len |-> 0, closes |-> {}, gaps |-> {},
                  start_date |-> NoValue, end_date |-> NoValue ]
    /\ df = [len |-> 0, closes |-> {}, gaps |-> {}]
    /\ result = None
    /\ runs = <<>>

\* cash_monitor.check(current_date, stock_price, start_date), start_date being day 0
Check ==
    /\ pc = "check"
    /\ Len(cash_monitor.snapshots) < MaxChecks
    /\ \E days \in CheckDays, stock_price \in CheckPrices :
          /\ row' = [Date |-> days, Close |-> stock_price]
          /\ cash_monitor' = [cash_monitor EXCEPT !.snapshots =
                                 Append(@, check(cash_monitor, days, stock_price, 0))]
    /\ UNCHANGED <<config, iv, pc, i, strategy, cash, equity_curve, cash_warnings,
                   day0, prices, df, result, runs>>

SpecMonitor == InitMonitor /\ [][Check]_vars

-----------------------------------------------------------------------------
(* The Strategy Engine on its own: the operations of CoveredCallStrategy called in
   any order, on dates that do not go back *)

\* calls made on one strategy object
MaxOps == 3

\* configurations: expiry targets of 3 and 1 days, and a lot below one contract
EngineConfigs ==
    { CoveredCallConfig(3, 1), CoveredCallConfig(1, 0),
      [CoveredCallConfig(3, 1) EXCEPT !.shares = 50] }

\* stock prices the operations are called with
EngineSpots == {200000, 290000}

\* days from one call to the next
EngineGaps == {0, 1}

InitEngine ==
    /\ config \in EngineConfigs
    /\ iv \in IVs
    /\ pc = "engine"
    /\ i = 0
    /\ row = [Date |-> 0, Close |-> 0]
    /\ strategy = CoveredCallStrategy(config)
    /\ cash_monitor = CashFloorMonitor(config.net_cash_per_share,
                                       config.cash_burn_per_quarter, 150, 80)
    /\ cash = 0
    /\ equity_curve = <<>>
    /\ cash_warnings = <<>>
    /\ day0 = [strategy |-> NewStrategy, cash |-> 0]
    /\ prices = [ len |-> 0, closes |-> {}, gaps |-> {},
                  start_date |-> NoValue, end_date |-> NoValue ]
    /\ df = [len |-> 0, closes |-> {}, gaps |-> {}]
    /\ result = None
    /\ runs = <<>>

\* the trades a call appended to the log of s, which are the trades it returns
Returned(s, after) == LastTrades(after.trades, Len(after.trades) - Len(s.trades))

\* one call: row holds its date and price, day0 the strategy it found, result what
\* it returned (trades, or the value of should_roll) or that it raised
Call(op, current_date, stock_price, after, value, raised) ==
    /\ pc = "engine"
    /\ i < MaxOps
    /\ i' = i + 1
    /\ row' = [Date |-> current_date, Close |-> stock_price]
    /\ day0' = [strategy |-> strategy, cash |-> 0]
    /\ strategy' = after
    /\ result' = << [ op |-> op, trades |-> Returned(strategy, after),
                      value |-> value, raised |-> raised ] >>
    /\ UNCHANGED <<config, iv, pc, cash_monitor, cash, equity_curve, cash_warnings,
                   prices, df, runs>>

OpenStockPosition ==
    \E gap \in EngineGaps, stock_price \in EngineSpots :
        Call("open_stock_position", row.Date + gap, stock_price,
             open_stock_position(config, strategy, row.Date + gap, stock_price),
             FALSE, FALSE)

\* sell_call(current_date, stock_price, iv), dte left at None
SellCall ==
    \E gap \in EngineGaps, stock_price \in EngineSpots :
        Call("sell_call", row.Date + gap, stock_price,
             sell_call(config, strategy, row.Date + gap, stock_price, iv,
                       config.target_dte),
             FALSE, FALSE)

CheckExpiration ==
    \E gap \in EngineGaps, stock_price \in EngineSpots :
        Call("check_expiration", row.Date + gap, stock_price,
             check_expiration(strategy, row.Date + gap, stock_price),
             FALSE, FALSE)

ShouldRoll ==
    \E gap \in EngineGaps, stock_price \in EngineSpots :
        IF should_roll_raises(config, strategy, row.Date + gap)
        THEN Call("should_roll", row.Date + gap, stock_price, strategy, FALSE, TRUE)
        ELSE Call("should_roll", row.Date + gap, stock_price, strategy,
                  should_roll(config, strategy, row.Date + gap, stock_price, iv),
                  FALSE)

RollPosition ==
    \E gap \in EngineGaps, stock_price \in EngineSpots :
        Call("roll_position", row.Date + gap, stock_price,
             roll_position(config, strategy, row.Date + gap, stock_price, iv),
             FALSE, FALSE)

NextEngine ==
    OpenStockPosition \/ SellCall \/ CheckExpiration \/ ShouldRoll \/ RollPosition

SpecEngine == InitEngine /\ [][NextEngine]_vars

\* the strategy object as the day loop of run drives it, or as any caller does
InitLog == Init \/ InitEngine

NextLog == Next \/ NextEngine

SpecLog == InitLog /\ [][NextLog]_vars

-----------------------------------------------------------------------------
(* implied_volatility_from_history on its own, over series lengths, windows and
   historical volatilities *)

\* len(prices) is 0 .. MaxPrices
MaxPrices == 7

\* the lookback windows the estimator is called with (run passes 20, the default
\* is 30; scaled to the series lengths followed here)
Windows == {1, 2, 3}

\* np.std(log_returns[i - window : i]) * np.sqrt(252) in percent, for positive
\* prices: any value >= 0; 0 for a flat window
HistoricalVols == {0, 40, 80}

\* the estimate at position j (from 0) before the backfill: NoValue stands for NaN,
\* hv[j] for the historical volatility of the window that ends before j
RawEstimate(n, window, hv, j) ==
    IF window + 1 <= j /\ j <= n - 1 THEN (hv[j] * 13) \div 10 ELSE NoValue

\* iv_series[:first_valid] = iv_series[first_valid], when first_valid < len
Backfilled(n, window, hv, j) ==
    IF window + 1 < n /\ j < window + 1
    THEN RawEstimate(n, window, hv, window + 1)
    ELSE RawEstimate(n, window, hv, j)

\* np.maximum(x, 0.30): NaN stays NaN
FloorIV(x) == IF x = NoValue THEN NoValue ELSE Max(x, IVFloor)

\* implied_volatility_from_history -> iv_series, positions 0 .. n - 1 held at
\* 1 .. n
implied_volatility_from_history(n, window, hv) ==
    [k \in 1..n |-> FloorIV(Backfilled(n, window, hv, k - 1))]

InitVol ==
    /\ pc = "estimate"
    /\ \E n \in 0..MaxPrices :
          prices = [ len |-> n, closes |-> Spots, gaps |-> Gaps,
                     start_date |-> NoValue, end_date |-> NoValue ]
    /\ i \in Windows
    /\ config = CoveredCallConfig(30, 5)
    /\ iv = IVFloor
    /\ row = [Date |-> 0, Close |-> 0]
    /\ strategy = NewStrategy
    /\ cash_monitor = CashFloorMonitor(config.net_cash_per_share,
                                       config.cash_burn_per_quarter, 150, 80)
    /\ cash = 0
    /\ equity_curve = <<>>
    /\ cash_warnings = <<>>
    /\ day0 = [strategy |-> NewStrategy, cash |-> 0]
    /\ df = [len |-> 0, closes |-> {}, gaps |-> {}]
    /\ result = None
    /\ runs = <<>>

\* implied_volatility_from_history(prices, window), i holding the window
EstimateVolatility ==
    /\ pc = "estimate"
    /\ \E hv \in [0..(prices.len - 1) -> HistoricalVols] :
          result' = << implied_volatility_from_history(prices.len, i, hv) >>
    /\ pc' = "estimated"
    /\ UNCHANGED <<config, iv, i, row, strategy, cash_monitor, cash, equity_curve,
                   cash_warnings, day0, prices, df, runs>>

SpecVol == InitVol /\ [][EstimateVolatility]_vars

-----------------------------------------------------------------------------
(* Vocabulary of the properties *)

\* the trading blocks of the current row have run
Traded == pc \in {"cash_floor", "equity", "done", "returned"}

\* the trades recorded so far for the current row (day0 is the log the row found)
TodaysTrades ==
    SubSeq(strategy.trades, Len(day0.strategy.trades) + 1, Len(strategy.trades))

\* the actions of a sequence of trades
Actions(trades) == [k \in 1..Len(trades) |-> trades[k].action]

\* calls sold and not yet closed, according to a trade log
RECURSIVE OpenCalls(_)
OpenCalls(trades) ==
    IF trades = <<>> THEN 0
    ELSE LET t == trades[Len(trades)] IN
         OpenCalls(SubSeq(trades, 1, Len(trades) - 1))
           + (IF t.action = "SELL_CALL" THEN 1
              ELSE IF t.action \in {"EXPIRE", "CALLED_AWAY", "ROLL"} THEN -1
              ELSE 0)

\* the position the current row found open, still short of its expiration
OpenBeforeExpiration ==
    /\ day0.strategy.position # None
    /\ row.Date < day0.strategy.position[1].expiration

\* net premium per share of a recorded SELL_CALL
NetPremiumPerShare(t) ==
    apply_bid_ask_slippage(
        black_scholes_call(t.stock_price, t.strike, t.expiration - t.date, iv),
        config.bid_ask_spread_pct)

-----------------------------------------------------------------------------
(* C1 *)

\* C1: on a day that finds a call open, short of its expiration and not sold that
\* day, a true should_roll makes the day's trades a ROLL buyback followed by a
\* SELL_CALL, with both cash flows applied to the cash balance.
C1_RollExecuted ==
    ( /\ Traded
      /\ OpenBeforeExpiration
      /\ should_roll(config, day0.strategy, row.Date, row.Close, iv) )
    => /\ Actions(TodaysTrades) = <<"ROLL", "SELL_CALL">>
       /\ cash = day0.cash + SumPremium(TodaysTrades)

-----------------------------------------------------------------------------
(* C2 *)

\* C2: in every reachable state of a run shares_held is 0 or the configured lot
\* size, and at most one call is open: the calls the trade log has sold and not
\* closed are exactly the position the strategy holds (one or none).
C2_OneLotOnePosition ==
    /\ strategy.shares_held \in {0, config.shares}
    /\ OpenCalls(strategy.trades) = IF strategy.position = None THEN 0 ELSE 1

\* C2 witness: the lot is held again under a new call after an assignment
C2_Witness ==
    /\ strategy.times_called_away > 0
    /\ strategy.shares_held = config.shares
    /\ strategy.position # None

-----------------------------------------------------------------------------
(* C3 *)

\* the DailyEquitySnapshot of a row is about to be, or has just been, appended:
\* the strategy is as the day leaves it
DayEnd == pc \in {"equity", "done"} \/ (pc = "entry" /\ i > 0)

\* C3: at the end of every simulated day a position is open if and only if
\* shares_held equals the lot size.
C3_CoveredAtDayEnd ==
    DayEnd => (strategy.position # None <=> strategy.shares_held = config.shares)

\* C3 witness: a day ends flat after an assignment, and no call is open
C3_Witness ==
    /\ pc = "equity"
    /\ strategy.times_called_away > 0
    /\ strategy.shares_held = 0
    /\ strategy.position = None

-----------------------------------------------------------------------------
(* C4 *)

\* C4: every SELL_CALL of the trade log sold its call for a slippage-adjusted net
\* premium per share of at least 1 cent.
C4_NoSaleBelowOneCent ==
    \A k \in 1..Len(strategy.trades) :
        strategy.trades[k].action = "SELL_CALL"
            => NetPremiumPerShare(strategy.trades[k]) >= 1000

-----------------------------------------------------------------------------
(* C5 *)

\* C5: the cash flow of every TradeRecord has the sign of its action: BUY_STOCK
\* and ROLL are negative, SELL_CALL and CALLED_AWAY are non-negative.
C5_CashFlowSigns ==
    \A k \in 1..Len(strategy.trades) :
        LET t == strategy.trades[k] IN
        /\ t.action \in {"BUY_STOCK", "ROLL"} => t.premium < 0
        /\ t.action \in {"SELL_CALL", "CALLED_AWAY"} => t.premium >= 0

-----------------------------------------------------------------------------
(* C6 *)

\* C6: at the end of a run the initial capital plus the cash flows of all
\* TradeRecords is the final cash balance, and with the end stock value less the
\* open-call liability it is the equity of the final DailyEquitySnapshot.
C6_TradeLogReconciles ==
    pc = "done" =>
        LET final    == equity_curve[Len(equity_curve)]
            from_log == InitialInvestment(config, equity_curve[1].StockPrice)
                            + SumPremium(strategy.trades)
        IN  /\ from_log = cash
            /\ from_log + final.StockValue - final.OptionLiability = final.Equity

-----------------------------------------------------------------------------
(* C7 *)

-----------------------------------------------------------------------------
(* C8 *)

\* C8: the step that processes an assignment (date >= expiration and spot >=
\* strike) sets shares_held to 0 and the position to None, adds 1 to
\* times_called_away, appends exactly one trade, a CALLED_AWAY, and credits cash
\* with strike * the shares held immediately before.
C8_AssignmentStep ==
    [][ ( /\ pc = "expiration"
          /\ strategy.position # None
          /\ row.Date >= strategy.position[1].expiration
          /\ row.Close >= strategy.position[1].strike )
        => /\ strategy'.shares_held = 0
           /\ strategy'.position = None
           /\ strategy'.times_called_away = strategy.times_called_away + 1
           /\ Len(strategy'.trades) = Len(strategy.trades) + 1
           /\ SubSeq(strategy'.trades, 1, Len(strategy.trades)) = strategy.trades
           /\ strategy'.trades[Len(strategy'.trades)].action = "CALLED_AWAY"
           /\ cash' = cash + strategy.position[1].strike * strategy.shares_held
      ]_vars

\* C8 witness: an assignment has just been processed with the price above the strike
C8_Witness ==
    /\ pc = "cash_floor"
    /\ TodaysTrades # <<>>
    /\ LET t == TodaysTrades[Len(TodaysTrades)] IN
          t.action = "CALLED_AWAY" /\ t.stock_price > t.strike

-----------------------------------------------------------------------------
(* C9 *)

\* C9: every EXPIRE of the trade log is immediately followed by a SELL_CALL of the
\* same date, the expiry leaves shares_held unchanged, and the day of an expiry
\* ends with an open position entered that day.
C9_ExpireThenResell ==
    /\ \A k \in 1..Len(strategy.trades) :
          strategy.trades[k].action = "EXPIRE" =>
              /\ k < Len(strategy.trades)
              /\ strategy.trades[k + 1].action = "SELL_CALL"
              /\ strategy.trades[k + 1].date = strategy.trades[k].date
              /\ strategy.trades[k + 1].shares = strategy.trades[k].shares
    /\ ( /\ Traded
         /\ \E k \in 1..Len(TodaysTrades) : TodaysTrades[k].action = "EXPIRE" )
       => /\ strategy.position # None
          /\ strategy.position[1].entry_date = row.Date
          /\ strategy.shares_held = config.shares

\* C9 witness: a call the day found open has expired worthless and was replaced
C9_Witness ==
    /\ pc = "equity"
    /\ Actions(TodaysTrades) = <<"EXPIRE", "SELL_CALL">>

-----------------------------------------------------------------------------
(* C10 *)

\* C10: a BUY_STOCK is the first trade of the run, on the first day, or directly
\* follows a CALLED_AWAY of an earlier day; every BUY_STOCK is immediately followed
\* by a SELL_CALL of the same date; and a CALLED_AWAY that is not on the last day
\* is followed by a BUY_STOCK on the very next simulated day.
C10_ReEntry ==
    \A k \in 1..Len(strategy.trades) :
        LET t == strategy.trades[k] IN
        /\ t.action = "BUY_STOCK" =>
              /\ \/ k = 1 /\ t.date = 0
                 \/ /\ k > 1
                    /\ strategy.trades[k - 1].action = "CALLED_AWAY"
                    /\ strategy.trades[k - 1].date < t.date
              /\ k < Len(strategy.trades)
              /\ strategy.trades[k + 1].action = "SELL_CALL"
              /\ strategy.trades[k + 1].date = t.date
        /\ t.action = "CALLED_AWAY" =>
              IF k = Len(strategy.trades)
              THEN \/ row.Date = t.date
                   \/ /\ pc = "entry"
                      /\ equity_curve[Len(equity_curve)].Date = t.date
              ELSE /\ strategy.trades[k + 1].action = "BUY_STOCK"
                   /\ strategy.trades[k + 1].date > t.date
                   /\ \A e \in 1..Len(equity_curve) :
                         ~( /\ t.date < equity_curve[e].Date
                            /\ equity_curve[e].Date < strategy.trades[k + 1].date )

\* C10 witness: the stock has been bought again after an assignment
C10_Witness ==
    \E k \in 2..Len(strategy.trades) :
        /\ strategy.trades[k - 1].action = "CALLED_AWAY"
        /\ strategy.trades[k].action = "BUY_STOCK"

-----------------------------------------------------------------------------
(* C11 *)

\* the trading blocks of the row of date d have run
TradedOn(d) == row.Date > d \/ (row.Date = d /\ Traded)

-----------------------------------------------------------------------------
(* C12 *)

\* C12: run fails with the data-sufficiency error exactly when fewer than 30 rows
\* remain after the date window; at the failure no strategy state, trade, monitor
\* snapshot, equity snapshot or result exists.
C12_InsufficientData ==
    /\ pc # "filter" => (pc = "error" <=> Cardinality(InWindow(prices)) < 30)
    /\ pc = "error" =>
          /\ strategy = NewStrategy
          /\ cash_monitor.snapshots = <<>>
          /\ cash = 0
          /\ equity_curve = <<>>
          /\ cash_warnings = <<>>
          /\ result = None

\* C12 witness: a frame of 30 rows or more fails because the window leaves 29
C12_Witness ==
    /\ pc = "error"
    /\ prices.len >= 30
    /\ Cardinality(InWindow(prices)) = 29

-----------------------------------------------------------------------------
(* C13 *)

\* two configurations that differ at most in the cash-floor parameters
SameButCashFloor(c1, c2) ==
    c1 = [c2 EXCEPT !.net_cash_per_share = c1.net_cash_per_share,
                    !.cash_burn_per_quarter = c1.cash_burn_per_quarter]

\* C13: runs over the same prices under configurations that differ only in
\* net_cash_per_share and cash_burn_per_quarter return the same trade log and daily
\* equity series (cash balances included) and end with the same strategy state and
\* cash; only the warnings may differ.
C13_MonitorDoesNotSteer ==
    pc = "returned" =>
        \A k \in 1..Len(runs) :
            SameButCashFloor(runs[k].config, config) =>
                /\ result[1].trades = runs[k].result.trades
                /\ result[1].daily_equity = runs[k].result.daily_equity
                /\ strategy = runs[k].strategy
                /\ cash = runs[k].cash

\* C13 witness: two finished runs under different cash-floor parameters, with
\* different warning lists, each having traded through an expiration
C13_Witness ==
    /\ pc = "returned"
    /\ \E k \in 1..Len(runs) :
          /\ runs[k].config # config
          /\ SameButCashFloor(runs[k].config, config)
          /\ runs[k].result.cash_floor_warnings # result[1].cash_floor_warnings
          /\ Len(runs[k].result.trades) >= 4

-----------------------------------------------------------------------------
(* C14 *)

\* C14: a later run on the same object with the same prices and configuration
\* returns the result of the earlier one (trades, equity series, warnings and
\* metrics), and starts from a fresh strategy, a monitor without snapshots and
\* empty equity and warning lists.
C14_Reproducible ==
    /\ pc = "returned" =>
          \A k \in 1..Len(runs) :
              runs[k].config = config => result[1] = runs[k].result
    /\ (Len(runs) > 0 /\ pc = "entry" /\ i = 0) =>
          /\ strategy = NewStrategy
          /\ cash_monitor.snapshots = <<>>
          /\ equity_curve = <<>>
          /\ cash_warnings = <<>>
          /\ result = None

\* C14 witness: a second run under the configuration of the first has returned,
\* with trades through an expiration and cash-floor warnings
C14_Witness ==
    /\ pc = "returned"
    /\ Len(runs) > 0
    /\ runs[1].config = config
    /\ Len(result[1].trades) >= 4
    /\ result[1].cash_floor_warnings # <<>>

-----------------------------------------------------------------------------
(* C15 *)

\* net premium per share of the candidate at position k of strike_candidates
CandidateNet(k) ==
    apply_bid_ask_slippage(
        black_scholes_call(row.Close, config.strike_candidates[k], config.target_dte, iv),
        config.bid_ask_spread_pct)

\* the positions of the candidates at or above min_strike, strictly above
\* spot * 1.02 and with a net premium of 1 cent or more
Qualifying ==
    { k \in 1..Len(config.strike_candidates) :
        /\ config.strike_candidates[k] >= config.min_strike
        /\ config.strike_candidates[k] * 100 > row.Close * 102
        /\ CandidateNet(k) >= 1000 }

\* the score of the candidate at position k
CandidateScore(k) ==
    Score(CandidateNet(k),
          call_delta(row.Close, config.strike_candidates[k], config.target_dte, iv),
          row.Close, config.target_dte)

\* C15: select_strike returns the qualifying candidate of maximum score, the first
\* in list order among equals, or min_strike when none qualifies; the strike
\* returned is at least min_strike.
C15_BestQualifyingStrike ==
    pc = "selected" =>
        LET strike == result[1][1] IN
        /\ strike >= config.min_strike
        /\ IF Qualifying = {}
           THEN strike = config.min_strike
           ELSE \E k \in Qualifying :
                   /\ strike = config.strike_candidates[k]
                   /\ \A j \in Qualifying :
                         /\ CandidateScore(j) <= CandidateScore(k)
                         /\ j < k => CandidateScore(j) < CandidateScore(k)

\* C15 witness: several candidates qualify and the one returned is neither the
\* first of them in list order nor min_strike
C15_Witness ==
    /\ pc = "selected"
    /\ Cardinality(Qualifying) >= 3
    /\ \E j \in Qualifying : config.strike_candidates[j] # result[1][1]
                               /\ \A k \in Qualifying : j <= k
    /\ result[1][1] # config.min_strike

-----------------------------------------------------------------------------
(* C16 *)

\* the estimated cash of a snapshot is below half the monitor's initial cash
BelowHalf(sn) == sn.estimated_net_cash_per_share * 2 < cash_monitor.initial_net_cash

\* C16: a snapshot whose estimated cash is below 50% of the initial cash carries the
\* burn alert, whatever rules (a)-(c) set, and thesis_intact false; thesis_intact is
\* false only if the estimated cash is <= 0 or below 50% of the initial cash.
C16_BurnAlertOverrides ==
    \A k \in 1..Len(cash_monitor.snapshots) :
        LET sn == cash_monitor.snapshots[k] IN
        /\ BelowHalf(sn) => (sn.warning = "BURN_ALERT" /\ ~sn.thesis_intact)
        /\ ~sn.thesis_intact => (sn.estimated_net_cash_per_share <= 0 \/ BelowHalf(sn))

\* C16 witness: the cash is fully burned, rule (a) applies, and the snapshot carries
\* the burn alert; another snapshot has rule (b) or (c) applying with the thesis
\* intact
C16_Witness ==
    /\ \E k \in 1..Len(cash_monitor.snapshots) :
          /\ cash_monitor.snapshots[k].estimated_net_cash_per_share = 0
          /\ cash_monitor.initial_net_cash > 0
          /\ cash_monitor.snapshots[k].warning = "BURN_ALERT"
    /\ \E k \in 1..Len(cash_monitor.snapshots) :
          /\ cash_monitor.snapshots[k].warning \in {"WEAKENED", "BELOW_CASH"}
          /\ cash_monitor.snapshots[k].thesis_intact

-----------------------------------------------------------------------------
(* C17 *)

\* C17: when the conditions of rule (b) (price / cash > warning_ratio) and of rule
\* (c) (price < cash * danger_ratio) both hold for a snapshot with cash > 0 and
\* cash >= 50% of the initial cash, the warning is that of rule (c).
C17_LaterRuleOverrides ==
    \A k \in 1..Len(cash_monitor.snapshots) :
        LET sn  == cash_monitor.snapshots[k]
            est == sn.estimated_net_cash_per_share
        IN  ( /\ est > 0
              /\ ~BelowHalf(sn)
              /\ sn.stock_price * 100 > est * cash_monitor.warning_ratio
              /\ sn.stock_price * 100 < est * cash_monitor.danger_ratio )
            => sn.warning = "BELOW_CASH"

-----------------------------------------------------------------------------
(* C18 *)

\* C18: the estimated cash of every snapshot is initial - burn * (days / 90) floored
\* at 0 (to the unit of the money scale), never negative, not higher on a later
\* date than on an earlier one, and exactly 1.00 for initial 1.50, burn 0.10 and
\* 450 days.
C18_EstimatedCash ==
    \A k \in 1..Len(cash_monitor.snapshots) :
        LET sn        == cash_monitor.snapshots[k]
            est       == sn.estimated_net_cash_per_share
            unfloored == cash_monitor.initial_net_cash * 90
                             - cash_monitor.quarterly_burn * sn.date
        IN  /\ est >= 0
            /\ IF unfloored <= 0 THEN est = 0
               ELSE unfloored - 90 < est * 90 /\ est * 90 < unfloored + 90
            /\ \A j \in 1..Len(cash_monitor.snapshots) :
                  cash_monitor.snapshots[j].date <= sn.date =>
                      est <= cash_monitor.snapshots[j].estimated_net_cash_per_share
            /\ ( /\ cash_monitor.initial_net_cash = 150000
                 /\ cash_monitor.quarterly_burn = 10000
                 /\ sn.date = 450 ) => est = 100000

\* C18 witness: the default monitor has estimated 1.00 at 450 days and, at the
\* floor, 0 at 1400 days
C18_Witness ==
    /\ cash_monitor.initial_net_cash = 150000
    /\ cash_monitor.quarterly_burn = 10000
    /\ \E j, k \in 1..Len(cash_monitor.snapshots) :
          /\ cash_monitor.snapshots[j].date = 450
          /\ cash_monitor.snapshots[j].estimated_net_cash_per_share = 100000
          /\ cash_monitor.snapshots[k].date = 1400
          /\ cash_monitor.snapshots[k].estimated_net_cash_per_share = 0

-----------------------------------------------------------------------------
(* C19 *)

\* the rows whose day has ended
DaysEnded == IF pc \in {"done", "returned"} THEN i + 1 ELSE i

\* C19: one DailyEquitySnapshot per simulated day, in strictly increasing date
\* order, each with equity = cash + stock value - option liability; the snapshot of
\* the day just ended has the cash balance, shares_held * spot as stock value, and
\* liability 0 when no position is open or the open position has no days left.
C19_DailyEquity ==
    /\ Len(equity_curve) = DaysEnded
    /\ \A k \in 1..Len(equity_curve) :
          /\ k > 1 => equity_curve[k - 1].Date < equity_curve[k].Date
          /\ equity_curve[k].Equity =
                 equity_curve[k].Cash + equity_curve[k].StockValue
                     - equity_curve[k].OptionLiability
          /\ equity_curve[k].OptionLiability >= 0
    /\ (equity_curve # <<>> /\ pc \in {"entry", "done", "returned"}) =>
          LET last == equity_curve[Len(equity_curve)] IN
          /\ last.Cash = cash
          /\ last.StockValue = strategy.shares_held * last.StockPrice
          /\ ( \/ strategy.position = None
               \/ strategy.position[1].expiration - last.Date <= 0 )
             => last.OptionLiability = 0

\* C19 witness: a day has just ended with the lot held and an open call that has
\* days left and a positive value, after an earlier day
C19_Witness ==
    /\ pc \in {"entry", "done"}
    /\ Len(equity_curve) >= 2
    /\ strategy.shares_held = config.shares
    /\ strategy.position # None
    /\ equity_curve[Len(equity_curve)].OptionLiability > 0

-----------------------------------------------------------------------------
(* C20 *)

\* the highest equity of days 1 .. k of a returned equity series
Peak(curve, k) ==
    CHOOSE m \in {curve[j].Equity : j \in 1..k} :
        \A j \in 1..k : curve[j].Equity <= m

\* (equity - running maximum) / running maximum on day k, in units of 0.01 percent
FallFromPeak(curve, k) ==
    (curve[k].Equity - Peak(curve, k)) \div (Peak(curve, k) \div 10000)

\* C20: the max drawdown a run returns is the minimum over the days of
\* (equity - running maximum) / running maximum; it is <= 0, and 0 when the equity
\* never falls below an earlier value.
C20_MaxDrawdown ==
    pc = "returned" =>
        LET curve == result[1].daily_equity
            mdd   == result[1].max_drawdown_pct
        IN  /\ mdd <= 0
            /\ \E k \in 1..Len(curve) : mdd = FallFromPeak(curve, k)
            /\ \A k \in 1..Len(curve) : mdd <= FallFromPeak(curve, k)
            /\ (\A j, k \in 1..Len(curve) :
                   j < k => curve[j].Equity <= curve[k].Equity) => mdd = 0

\* C20 witness: a run has returned a negative max drawdown from an equity series
\* that rose above its first value and then fell
C20_Witness ==
    /\ pc = "returned"
    /\ result[1].max_drawdown_pct < 0
    /\ \E j, k \in 1..Len(result[1].daily_equity) :
          /\ j < k
          /\ result[1].daily_equity[1].Equity < result[1].daily_equity[j].Equity
          /\ result[1].daily_equity[k].Equity < result[1].daily_equity[j].Equity

-----------------------------------------------------------------------------
(* C21 *)

\* C21: the volatility estimator returns a series as long as its input in which
\* every position, the warm-up positions included, holds a value (not NaN) that is
\* at least 0.30.
C21_NoMissingVolatility ==
    pc = "estimated" =>
        /\ Len(result[1]) = prices.len
        /\ \A k \in 1..Len(result[1]) :
              result[1][k] # NoValue /\ result[1][k] >= 30

-----------------------------------------------------------------------------
(* C22 *)

\* C22: the trade log is append-only and chronological: the log an operation (or
\* a day of the run) found is kept, unchanged and in place, at the head of the log
\* it leaves, and the dates of the log do not decrease.
C22_AppendOnlyLog ==
    /\ Len(day0.strategy.trades) <= Len(strategy.trades)
    /\ SubSeq(strategy.trades, 1, Len(day0.strategy.trades)) = day0.strategy.trades
    /\ \A k \in 2..Len(strategy.trades) :
          strategy.trades[k - 1].date <= strategy.trades[k].date

\* C22 witness: roll_position has appended its two trades to a log of two, on a
\* later date
C22_Witness ==
    /\ pc = "engine"
    /\ result # None
    /\ result[1].op = "roll_position"
    /\ Len(day0.strategy.trades) = 2
    /\ Len(strategy.trades) = 4
    /\ strategy.trades[2].date < strategy.trades[3].date

-----------------------------------------------------------------------------
(* C23 *)

\* the last call made on the strategy was of the operation op
Returns(op) == pc = "engine" /\ result # None /\ result[1].op = op

\* the strategy the last call found had no position, or one not yet at its
\* expiration on the date of the call
NothingDue ==
    \/ day0.strategy.position = None
    \/ row.Date < day0.strategy.position[1].expiration

\* C23: check_expiration called with no open position, or on a date strictly before
\* the position's expiration, returns none and leaves shares_held, the position, the
\* trade log and the three counters unchanged.
C23_NoOpBeforeExpiration ==
    (Returns("check_expiration") /\ NothingDue) =>
        /\ result[1].trades = <<>>
        /\ strategy.shares_held = day0.strategy.shares_held
        /\ strategy.position = day0.strategy.position
        /\ strategy.trades = day0.strategy.trades
        /\ strategy.total_premium_collected = day0.strategy.total_premium_collected
        /\ strategy.total_commissions = day0.strategy.total_commissions
        /\ strategy.times_called_away = day0.strategy.times_called_away

\* C23 witness: check_expiration was called a day before the expiration of a call
\* that is in the money
C23_Witness ==
    /\ Returns("check_expiration")
    /\ day0.strategy.position # None
    /\ row.Date < day0.strategy.position[1].expiration
    /\ row.Close >= day0.strategy.position[1].strike

-----------------------------------------------------------------------------
(* C24 *)

\* C24: roll_position called with a position open returns two trades, the ROLL of
\* the old call (its strike and expiration) and then the SELL_CALL of the new one,
\* appends them in that order, leaves shares_held unchanged, adds the commission of
\* both legs to total_commissions and leaves one open position entered on the date
\* of the roll.
C24_RollTrades ==
    (Returns("roll_position") /\ day0.strategy.position # None) =>
        LET old == day0.strategy.position[1]
            t   == result[1].trades
        IN  /\ Len(t) = 2
            /\ t[1].action = "ROLL"
            /\ t[1].strike = old.strike
            /\ t[1].expiration = old.expiration
            /\ t[2].action = "SELL_CALL"
            /\ strategy.trades = day0.strategy.trades \o t
            /\ strategy.shares_held = day0.strategy.shares_held
            /\ strategy.total_commissions =
                   day0.strategy.total_commissions
                     + old.contracts * config.commission_per_contract
                     + (strategy.shares_held \div 100) * config.commission_per_contract
            /\ strategy.position # None
            /\ strategy.position[1].entry_date = row.Date
            /\ OpenCalls(strategy.trades) = OpenCalls(day0.strategy.trades)

\* C24 witness: a call of ten contracts was rolled on a day after its sale
C24_Witness ==
    /\ Returns("roll_position")
    /\ day0.strategy.position # None
    /\ day0.strategy.position[1].contracts = 10
    /\ day0.strategy.position[1].entry_date < row.Date

-----------------------------------------------------------------------------
(* C25 *)

\* C25: should_roll returns false with no position open; with one open it returns
\* true when the remaining days are <= roll_dte_threshold, and otherwise true
\* exactly when the captured profit (original per-share premium minus the current
\* theoretical value) is >= roll_profit_pct of the original per-share premium; the
\* strategy state is as it was.
C25_ShouldRollDecision ==
    Returns("should_roll") =>
        /\ ~result[1].raised
        /\ strategy = day0.strategy
        /\ IF strategy.position = None THEN result[1].value = FALSE
           ELSE LET p    == strategy.position[1]
                    days == p.expiration - row.Date
                IN  IF days <= config.roll_dte_threshold THEN result[1].value = TRUE
                    ELSE LET original == p.premium_received \div (p.contracts * 100)
                             current  == black_scholes_call(row.Close, p.strike, days, iv)
                         IN  result[1].value <=>
                                 (original - current) * 100
                                     >= original * config.roll_profit_pct

-----------------------------------------------------------------------------
(* C26 *)

\* C26: should_roll returns a boolean and does not raise, in every strategy state
\* the operations can reach, a position of zero contracts with more days left than
\* the roll threshold included.
C26_ShouldRollReturns == Returns("should_roll") => ~result[1].raised

-----------------------------------------------------------------------------
(* C27 *)

\* the records of a trade log with the given action
TradesOf(trades, action) == SelectSeq(trades, LAMBDA t : t.action = action)

\* C27: total_premium_collected is the sum of the cash flows of the SELL_CALL
\* trades of the log, times_called_away the number of its CALLED_AWAY trades, and
\* check_expiration changes neither total_premium_collected nor total_commissions.
C27_CountersFromLog ==
    /\ strategy.total_premium_collected
          = SumPremium(TradesOf(strategy.trades, "SELL_CALL"))
    /\ strategy.times_called_away = Len(TradesOf(strategy.trades, "CALLED_AWAY"))
    /\ Returns("check_expiration") =>
          /\ strategy.total_premium_collected = day0.strategy.total_premium_collected
          /\ strategy.total_commissions = day0.strategy.total_commissions

\* C27 witness: check_expiration has had the shares called away, after a call sold
\* for a premium
C27_Witness ==
    /\ Returns("check_expiration")
    /\ Len(result[1].trades) = 1
    /\ result[1].trades[1].action = "CALLED_AWAY"
    /\ strategy.total_premium_collected > 0

-----------------------------------------------------------------------------
(* C28 *)

\* C28: with target_dte >= 1, once the trading steps of a day have run an open
\* position expires strictly later than that day; every EXPIRE or CALLED_AWAY is
\* recorded at or after the expiration, with no simulated day between the
\* expiration date (included) and the day of the record.
C28_ClosedOnFirstDayDue ==
    config.target_dte >= 1 =>
        /\ (Traded /\ strategy.position # None) =>
               strategy.position[1].expiration > row.Date
        /\ \A k \in 1..Len(strategy.trades) :
               LET t == strategy.trades[k] IN
               t.action \in {"EXPIRE", "CALLED_AWAY"} =>
                   /\ t.date >= t.expiration
                   /\ \A e \in 1..Len(equity_curve) :
                         ~( /\ t.expiration <= equity_curve[e].Date
                            /\ equity_curve[e].Date < t.date )

\* C28 witness: a call was closed on the first simulated day after an expiration
\* date that is not in the series
C28_Witness ==
    /\ config.target_dte >= 1
    /\ Traded
    /\ \E k \in 1..Len(strategy.trades) :
          /\ strategy.trades[k].action \in {"EXPIRE", "CALLED_AWAY"}
          /\ strategy.trades[k].date > strategy.trades[k].expiration
          /\ strategy.trades[k].date = row.Date

-----------------------------------------------------------------------------
(* C29 *)

\* the day loop of a run is under way or has ended
InRun == pc \in {"entry", "expiration", "cash_floor", "equity", "done", "returned"}

\* the last row (from 0) whose cash-floor step has run; -1 when none
LastChecked == IF pc \in {"equity", "done", "returned"} THEN i ELSE i - 1

\* the warnings of a sequence of snapshots, as the run collects them
WarningsOf(snapshots) ==
    LET warned == SelectSeq(snapshots, LAMBDA sn : sn.warning # "")
    IN  [k \in 1..Len(warned) |-> <<warned[k].date, warned[k].warning>>]

\* C29: the cash-floor check has run exactly once on each row whose index in the
\* filtered window is a multiple of 5, the first included, and on no other row,
\* after the row's trading steps and before its equity snapshot; cash_floor_warnings
\* holds one entry for each check that gave a warning, in date order.
C29_CheckEveryFifthRow ==
    InRun =>
        /\ Len(cash_monitor.snapshots)
               = Cardinality({k \in 0..LastChecked : k % 5 = 0})
        /\ \A n \in 1..Len(cash_monitor.snapshots) :
               cash_monitor.snapshots[n].date = 5 * (n - 1)
        /\ cash_warnings = WarningsOf(cash_monitor.snapshots)
        /\ (pc = "equity" /\ i % 5 = 0) =>
               /\ Len(equity_curve) = i
               /\ cash_monitor.snapshots[Len(cash_monitor.snapshots)].date = row.Date

\* C29 witness: a run of 31 rows or more has returned; it was checked on rows 0, 5,
\* ..., 30, and some but not all checks gave a warning
C29_Witness ==
    /\ pc = "returned"
    /\ Len(cash_monitor.snapshots) = 7
    /\ Len(cash_warnings) > 0
    /\ Len(cash_warnings) < 7

-----------------------------------------------------------------------------
(* C30 *)

\* C30: with target_dte >= 1 the trades of one simulated day are none,
\* [BUY_STOCK, SELL_CALL], [EXPIRE, SELL_CALL], [CALLED_AWAY] or [ROLL, SELL_CALL]:
\* never an expiration event together with a ROLL, never more than two trades.
C30_TradesOfOneDay ==
    (config.target_dte >= 1 /\ Traded) =>
        Actions(TodaysTrades) \in
            { <<>>, <<"BUY_STOCK", "SELL_CALL">>, <<"EXPIRE", "SELL_CALL">>,
              <<"CALLED_AWAY">>, <<"ROLL", "SELL_CALL">> }

\* C30 witness: a day with the single trade CALLED_AWAY, in a run that has had a
\* day of two trades
C30_Witness ==
    /\ config.target_dte >= 1
    /\ Traded
    /\ Actions(TodaysTrades) = <<"CALLED_AWAY">>
    /\ Len(strategy.trades) >= 3

-----------------------------------------------------------------------------
(* C31 *)

\* the shares the open call is written on
SharesShort(s) == s.position[1].contracts * 100

\* C31: the short call is never naked: after open_stock_position, sell_call,
\* check_expiration and roll_position called in any order, whenever a position is
\* open its contracts * 100 is at most shares_held; in a backtest run whose lot
\* size is a multiple of 100 it equals shares_held.
C31_NeverNaked ==
    strategy.position # None =>
        /\ SharesShort(strategy) <= strategy.shares_held
        /\ (pc # "engine" /\ config.shares % 100 = 0) =>
               SharesShort(strategy) = strategy.shares_held

\* C31 witness: a call sold before the stock was bought is still open after
\* open_stock_position: it covers no share of the lot now held
C31_Witness ==
    /\ pc = "engine"
    /\ result # None
    /\ result[1].op = "open_stock_position"
    /\ day0.strategy.position # None
    /\ day0.strategy.shares_held = 0
    /\ strategy.position # None
    /\ strategy.shares_held > 0

-----------------------------------------------------------------------------
(* C32 *)

\* C32: the backtest never spends cash it does not have: the cash balance recorded
\* in every DailyEquitySnapshot is >= 0, the stock purchase of the first day and
\* every re-purchase after an assignment being funded by the running balance.
C32_CashNeverNegative ==
    \A n \in 1..Len(equity_curve) : equity_curve[n].Cash >= 0

====
